---------------------------- MODULE Spec2Model ----------------------------
(* A model of the portfolio pipeline of Hitachi-venture-case:                *)
(*   services/portfolio_filtering.py + services/llm_client.py  (SpecFilter)  *)
(*   services/portfolio_enrichment.py                          (SpecEnrich)  *)
(*   services/portfolio_scraper.py + hitachi_energy_portfolio.py (SpecScrape)*)
(* Python strings are sequences of one-character strings; the empty string   *)
(* is <<>> and is the only falsy string.                                     *)
EXTENDS Integers, Sequences, FiniteSets, TLC

VARIABLES
    \* ---- relevance filter (portfolio_filtering.py, llm_client.py)
    fpc,          \* position: "idle", "start", "filtered", "single"
    companies,    \* the list handed to filter_relevant / the records of is_relevant
    llm_env,      \* what _get_client finds: the genai library, the API key
    submitted,    \* the batches of descriptions sent to the classifier, in call order
    response,     \* what the classifier call did (history of the last request)
    matches,      \* the list llm_filter_energy_bulk returned
    relevant,     \* the list filter_relevant returned
    single,       \* is_relevant's record, its round gate and its answer
    requests,     \* number of generate_content requests sent to the classifier
    fraised,      \* the exception that reached the caller of the filter, "" if none
    judge,        \* the classifier of the agreement check: its verdicts and manner
    singles,      \* is_relevant's answers for companies[1], companies[2], ... so far
    \* ---- enrichment of one record (portfolio_enrichment.py, main's loop body)
    epc,          \* position: "idle", "profile", "fill", "round", "done", "raised"
    ecompany,     \* the record being enriched
    ecompany0,    \* the record as it entered the pipeline (history)
    profile_html, \* what _fetch_vc_html returned (history)
    fetches,      \* number of calls of _fetch_vc_html
    eraised,      \* the exception that reached main from an enrichment step
    \* ---- _hash_round_stage applied to two names
    hash_in,      \* the two names
    hash_out,     \* the two rounds returned, "" before the call
    \* ---- scraping (portfolio_scraper.py, scrape_portfolios)
    spc,          \* position: "idle", "call", "feed", "returned", "raised"
    smode,        \* the entry point: "scrape_portfolio" or "scrape_portfolios"
    surls,        \* the urls still to scrape, the current one first
    sfallback,    \* the fallback list passed to the entry point
    senv,         \* what the world did during the last fetch_html call (history)
    shtml,        \* what the last fetch_html call returned, "unfetched" before it
    sattempts,    \* number of urlopen calls the last fetch_html call made
    eip_parser,   \* the EIPPortfolioParser
    eip_nesting,  \* divs open since the opening tag of the current item block (history)
    set_parser,   \* the entries of the SetVenturesParser
    link_parser,  \* the AnchorLinkParser
    text_parser,  \* the AnchorTextParser
    nevents,      \* number of handler calls of the current feed
    scall,        \* the last finished scrape_portfolio call (history)
    collected,    \* scrape_portfolios' companies
    sresult,      \* the list the entry point returned
    sraised,      \* the exception that reached the caller of the entry point
    \* ---- infer_company_name applied to one (description, website)
    infer_in,     \* the description and the website
    infer_out     \* [done, name]: whether the call returned, and the name

fvars == <<fpc, companies, llm_env, submitted, response, matches, relevant, single,
          requests, fraised, judge, singles>>
evars == <<epc, ecompany, ecompany0, profile_html, fetches, eraised>>
hvars == <<hash_in, hash_out>>
svars == <<spc, smode, surls, sfallback, senv, shtml, sattempts, eip_parser, eip_nesting, set_parser,
          link_parser, text_parser, nevents, scall, collected, sresult, sraised>>
ivars == <<infer_in, infer_out>>
vars == <<fvars, evars, hvars, svars, ivars>>

-----------------------------------------------------------------------------
(* Bounds of the model *)
MaxCompanies == 2
MaxPageEvents == 2
MaxEventsEIP == 5
MaxEventsSET == 2
MaxEventsGeneric == 3

-----------------------------------------------------------------------------
(* Python helpers *)

EmptyStr == <<>>

\* Python truthiness of a str: non-empty
Truthy(s) == s # EmptyStr

\* subclass relation of the exception classes the code names or meets
ExcParents ==
    [ Exception        |-> {"Exception"},
      ImportError      |-> {"ImportError", "Exception"},
      ValueError       |-> {"ValueError", "Exception"},
      TypeError        |-> {"TypeError", "Exception"},
      JSONDecodeError  |-> {"JSONDecodeError", "ValueError", "Exception"},
      RuntimeError     |-> {"RuntimeError", "Exception"},
      OSError          |-> {"OSError", "Exception"},
      TimeoutError     |-> {"TimeoutError", "OSError", "Exception"},
      URLError         |-> {"URLError", "OSError", "Exception"},
      HTTPError        |-> {"HTTPError", "URLError", "OSError", "Exception"} ]

\* does an `except (h1, h2, ...)` clause catch an exception of class exc
Catches(handlers, exc) == (ExcParents[exc] \cap handlers) # {}

-----------------------------------------------------------------------------
(* models/portfolio_models.py *)

RoundStage ==
    {"Seed", "Series A", "Series B", "Series C", "Series D", "Series E",
     "Series F", "Series G", "IPO", "Public", "Unknown"}

UNKNOWN == "Unknown"

Company(name, website, description, last_round, source, profile_url) ==
    [name |-> name, website |-> website, description |-> description,
     last_round |-> last_round, source |-> source, profile_url |-> profile_url]

-----------------------------------------------------------------------------
(* services/portfolio_filtering.py: the round gate *)

EARLY_STAGE_ALLOWED == {"Seed", "Series A", "Series B", "Series C"}

LATE_STAGE_BLOCKED ==
    {"Series D", "Series E", "Series F", "Series G", "IPO", "Public"}

\* a plausible slip: Series D counted as early stage
EARLY_STAGE_ALLOWED_WithD == {"Seed", "Series A", "Series B", "Series C", "Series D"}

is_round_eligible_NoBlockList(round_stage) ==
    round_stage \in EARLY_STAGE_ALLOWED_WithD

is_round_eligible(round_stage) ==
    IF ~ (round_stage # "") THEN FALSE          \* `if not round_stage`
    ELSE IF round_stage \in LATE_STAGE_BLOCKED THEN FALSE
    ELSE round_stage \in EARLY_STAGE_ALLOWED

-----------------------------------------------------------------------------
(* services/llm_client.py *)

\* _get_client: None without the library or without the API key
get_client(env) ==
    IF ~ env.library THEN "None"          \* ImportError caught
    ELSE IF ~ env.api_key THEN "None"
    ELSE "client"

\* A response text is a JSON document, possibly wrapped in a code fence:
\*   fence "none"  the document alone
\*   fence "json"  ```json ... ```   (strip("`"), replace("json", "", 1), strip())
\*   fence "lang"  ```<other tag> ... ``` : the tag stays in front of the document
\* The document is invalid JSON (the empty text included), a boolean, a list of
\* items, or another JSON value (null, number, string, object).
JsonItems == {"true", "false", "other"}

JsonInvalid == [kind |-> "invalid", b |-> FALSE, items |-> <<>>]
JsonOther == [kind |-> "other", b |-> FALSE, items |-> <<>>]
JsonBool(b) == [kind |-> "bool", b |-> b, items |-> <<>>]
JsonList(items) == [kind |-> "list", b |-> FALSE, items |-> items]

SeqsUpTo(S, n) == UNION {[1..k -> S] : k \in 0..n}

JsonDocs(maxLen) ==
    {JsonInvalid, JsonOther, JsonBool(TRUE), JsonBool(FALSE)}
        \cup {JsonList(items) : items \in SeqsUpTo(JsonItems, maxLen)}

Fences == {"none", "json", "lang"}

\* what a generate_content call can do: raise, or answer with a text
Responses(maxLen) ==
    {[raises |-> TRUE, fence |-> "none", doc |-> JsonInvalid]}
        \cup {[raises |-> FALSE, fence |-> f, doc |-> d] :
                  f \in Fences, d \in JsonDocs(maxLen)}

NoResponse == [raises |-> FALSE, fence |-> "none", doc |-> JsonInvalid]

\* the fence stripping followed by json.loads: the parsed document, or
\* JsonInvalid when json.loads raises JSONDecodeError
json_loads_stripped(resp) ==
    IF resp.fence = "lang" THEN JsonInvalid ELSE resp.doc

AllFalse(n) == [i \in 1..n |-> FALSE]

\* the result of a call: the value returned, or the exception that escapes
Returned(v) == [exc |-> "", value |-> v]
Escaped(e) == [exc |-> e, value |-> <<>>]

\* a plausible slip: the except clause names TypeError alone
ParseHandlers_TypeErrorOnly == {"TypeError"}

\* except (TypeError, json.JSONDecodeError)
ParseHandlers == {"TypeError", "JSONDecodeError"}

\* a plausible slip: the length of the parsed list is not compared
llm_filter_energy_bulk_NoLengthCheck(descriptions, env, resp) ==
    IF descriptions = <<>> THEN Returned(<<>>)
    ELSE IF get_client(env) = "None" THEN Returned(AllFalse(Len(descriptions)))
    ELSE IF resp.raises THEN Returned(AllFalse(Len(descriptions)))
    ELSE LET parsed == json_loads_stripped(resp) IN
         IF parsed.kind = "invalid" THEN Returned(AllFalse(Len(descriptions)))
         ELSE IF parsed.kind # "list" THEN Returned(AllFalse(Len(descriptions)))
         ELSE Returned([i \in 1..Len(parsed.items) |-> parsed.items[i] = "true"])

llm_filter_energy_bulk(descriptions, env, resp) ==
    IF descriptions = <<>> THEN Returned(<<>>)
    ELSE IF get_client(env) = "None" THEN Returned(AllFalse(Len(descriptions)))
    ELSE IF resp.raises
         THEN IF Catches({"Exception"}, "RuntimeError")
              THEN Returned(AllFalse(Len(descriptions)))
              ELSE Escaped("RuntimeError")
    ELSE LET parsed == json_loads_stripped(resp) IN
         IF parsed.kind = "invalid"
         THEN IF Catches(ParseHandlers, "JSONDecodeError")
              THEN Returned(AllFalse(Len(descriptions)))
              ELSE Escaped("JSONDecodeError")
         ELSE IF parsed.kind # "list" \/ Len(parsed.items) # Len(descriptions)
         THEN Returned(AllFalse(Len(descriptions)))
         ELSE Returned([i \in 1..Len(parsed.items) |->
                          IF parsed.items[i] \in {"true", "false"}
                          THEN parsed.items[i] = "true" ELSE FALSE])

llm_matches_energy(description, env, resp) ==
    IF get_client(env) = "None" THEN Returned(FALSE)
    ELSE IF resp.raises
         THEN IF Catches({"Exception"}, "RuntimeError")
              THEN Returned(FALSE)
              ELSE Escaped("RuntimeError")
    ELSE LET parsed == json_loads_stripped(resp) IN
         IF parsed.kind = "invalid"
         THEN IF Catches(ParseHandlers, "JSONDecodeError")
              THEN Returned(FALSE)
              ELSE Escaped("JSONDecodeError")
         ELSE IF parsed.kind = "bool" THEN Returned(parsed.b)
         ELSE Returned(FALSE)

-----------------------------------------------------------------------------
(* services/portfolio_filtering.py: is_relevant, filter_relevant *)

\* the first loop of filter_relevant without its round check
RECURSIVE gather_NoRoundGate(_, _, _)
gather_NoRoundGate(cs, index, acc) ==
    IF index > Len(cs) THEN acc
    ELSE IF ~ Truthy(cs[index].description)
         THEN gather_NoRoundGate(cs, index + 1, acc)
    ELSE gather_NoRoundGate(cs, index + 1,
            [eligible_indices |-> Append(acc.eligible_indices, index),
             descriptions |-> Append(acc.descriptions, cs[index].description)])

\* the first loop of filter_relevant, from position index on
RECURSIVE gather(_, _, _)
gather(cs, index, acc) ==
    IF index > Len(cs) THEN acc
    ELSE IF ~ is_round_eligible(cs[index].last_round)
         THEN gather(cs, index + 1, acc)
    ELSE IF ~ Truthy(cs[index].description)
         THEN gather(cs, index + 1, acc)
    ELSE gather(cs, index + 1,
            [eligible_indices |-> Append(acc.eligible_indices, index),
             descriptions |-> Append(acc.descriptions, cs[index].description)])

Min(a, b) == IF a <= b THEN a ELSE b

\* the second loop: for idx, match in zip(eligible_indices, matches)
RECURSIVE join(_, _, _, _, _)
join(cs, eligible_indices, ms, k, rel) ==
    IF k > Min(Len(eligible_indices), Len(ms)) THEN rel
    ELSE join(cs, eligible_indices, ms, k + 1,
              IF ms[k] THEN Append(rel, cs[eligible_indices[k]]) ELSE rel)

\* does llm_filter_energy_bulk / llm_matches_energy reach generate_content
SendsRequest(env) == get_client(env) # "None"

Gathered(cs) == gather(cs, 1, [eligible_indices |-> <<>>, descriptions |-> <<>>])

\* filter_relevant(companies): one batch call when a record passes both checks
FilterRelevant ==
    /\ fpc = "start"
    /\ LET g == Gathered(companies) IN
       IF g.descriptions = <<>>
       THEN /\ relevant' = <<>>
            /\ UNCHANGED <<submitted, response, matches, requests, fraised>>
       ELSE \E resp \in Responses(Len(g.descriptions) + 1) :
              /\ SendsRequest(llm_env) \/ resp = NoResponse
              /\ LET r == llm_filter_energy_bulk(g.descriptions, llm_env, resp) IN
                 /\ submitted' = Append(submitted, g.descriptions)
                 /\ requests' = requests + (IF SendsRequest(llm_env) THEN 1 ELSE 0)
                 /\ response' = resp
                 /\ matches' = r.value
                 /\ fraised' = r.exc
                 /\ relevant' = IF r.exc # "" THEN <<>>
                                ELSE join(companies, g.eligible_indices, r.value, 1, <<>>)
    /\ fpc' = "filtered"
    /\ UNCHANGED <<companies, llm_env, single, judge, singles>>
    /\ UNCHANGED <<evars, hvars, svars, ivars>>

NoSingle == [index |-> 0, eligible |-> FALSE, result |-> FALSE]

\* is_relevant(companies[i]): the single-record predicate
IsRelevant(i) ==
    /\ fpc = "start"
    /\ i \in 1..Len(companies)
    /\ LET company == companies[i]
           eligible == is_round_eligible(company.last_round) IN
       IF ~ eligible \/ ~ Truthy(company.description)
       THEN /\ single' = [index |-> i, eligible |-> eligible, result |-> FALSE]
            /\ UNCHANGED <<submitted, response, requests, fraised>>
       ELSE \E resp \in Responses(1) :
              /\ SendsRequest(llm_env) \/ resp = NoResponse
              /\ LET r == llm_matches_energy(company.description, llm_env, resp) IN
                 /\ submitted' = Append(submitted, <<company.description>>)
                 /\ requests' = requests + (IF SendsRequest(llm_env) THEN 1 ELSE 0)
                 /\ response' = resp
                 /\ fraised' = r.exc
                 /\ single' = [index |-> i, eligible |-> eligible,
                               result |-> IF r.exc # "" THEN FALSE ELSE r.value]
    /\ fpc' = "single"
    /\ UNCHANGED <<companies, llm_env, matches, relevant, judge, singles>>
    /\ UNCHANGED <<evars, hvars, svars, ivars>>

\* ---- filter_relevant and is_relevant over one list, with one classifier

Text_grid == <<"g", "r", "i", "d">>
Text_oil == <<"o", "i", "l">>
AgreeTexts == {Text_grid, Text_oil}

\* a classifier that answers a batch as it answers each description alone: a
\* verdict per description, given as a JSON array of booleans or as a JSON
\* boolean, in the same fence; or every request to it raises
Classifiers == [verdict : [AgreeTexts -> BOOLEAN], fence : Fences, raises : BOOLEAN]
NoJudge == [verdict |-> [t \in AgreeTexts |-> FALSE], fence |-> "none", raises |-> FALSE]

JsonOf(b) == IF b THEN "true" ELSE "false"

BatchAnswer(j, descriptions) ==
    [raises |-> j.raises, fence |-> j.fence,
     doc |-> IF j.raises THEN JsonInvalid
             ELSE JsonList([i \in 1..Len(descriptions) |-> JsonOf(j.verdict[descriptions[i]])])]

SingleAnswer(j, description) ==
    [raises |-> j.raises, fence |-> j.fence,
     doc |-> IF j.raises THEN JsonInvalid ELSE JsonBool(j.verdict[description])]

\* filter_relevant(companies) with the classifier judge
AgreeFilterRelevant ==
    /\ fpc = "agree"
    /\ LET g == Gathered(companies) IN
       IF g.descriptions = <<>>
       THEN /\ relevant' = <<>>
            /\ UNCHANGED <<submitted, response, matches, requests, fraised>>
       ELSE LET resp == BatchAnswer(judge, g.descriptions)
                r == llm_filter_energy_bulk(g.descriptions, llm_env, resp)
            IN  /\ submitted' = Append(submitted, g.descriptions)
                /\ requests' = requests + (IF SendsRequest(llm_env) THEN 1 ELSE 0)
                /\ response' = resp
                /\ matches' = r.value
                /\ fraised' = r.exc
                /\ relevant' = IF r.exc # "" THEN <<>>
                               ELSE join(companies, g.eligible_indices, r.value, 1, <<>>)
    /\ fpc' = "agree_singles"
    /\ UNCHANGED <<companies, llm_env, single, judge, singles>>
    /\ UNCHANGED <<evars, hvars, svars, ivars>>

\* is_relevant(companies[i]) for the next i, with the classifier judge
AgreeIsRelevant ==
    /\ fpc = "agree_singles"
    /\ Len(singles) < Len(companies)
    /\ LET i == Len(singles) + 1
           company == companies[i]
           eligible == is_round_eligible(company.last_round)
       IN  IF ~ eligible \/ ~ Truthy(company.description)
           THEN /\ singles' = Append(singles, FALSE)
                /\ single' = [index |-> i, eligible |-> eligible, result |-> FALSE]
                /\ UNCHANGED <<submitted, response, requests, fraised>>
           ELSE LET resp == SingleAnswer(judge, company.description)
                    r == llm_matches_energy(company.description, llm_env, resp)
                    result == IF r.exc # "" THEN FALSE ELSE r.value
                IN  /\ submitted' = Append(submitted, <<company.description>>)
                    /\ requests' = requests + (IF SendsRequest(llm_env) THEN 1 ELSE 0)
                    /\ response' = resp
                    /\ fraised' = IF fraised # "" THEN fraised ELSE r.exc
                    /\ singles' = Append(singles, result)
                    /\ single' = [index |-> i, eligible |-> eligible, result |-> result]
    /\ UNCHANGED <<fpc, companies, llm_env, matches, relevant, judge>>
    /\ UNCHANGED <<evars, hvars, svars, ivars>>

\* the inputs of the filter: records told apart by their name
Chr(i) == <<"0", "1", "2", "3", "4", "5", "6", "7", "8", "9">>[i + 1]
NameOf(i) == <<"c", Chr(i)>>
FilterDescriptions == {EmptyStr, <<"g", "r", "i", "d">>}

CompanyLists(n) ==
    UNION {{[i \in 1..k |-> Company(NameOf(i), EmptyStr, f[i][1], f[i][2], <<"E", "I", "P">>, EmptyStr)] :
              f \in [1..k -> FilterDescriptions \X RoundStage]} : k \in 0..n}

AgreeRounds == {"Series A", "Series D"}

AgreeLists(n) ==
    UNION {{[i \in 1..k |-> Company(NameOf(i), EmptyStr, f[i][1], f[i][2], <<"E", "I", "P">>, EmptyStr)] :
              f \in [1..k -> (AgreeTexts \cup {EmptyStr}) \X AgreeRounds]} : k \in 0..n}

LlmEnvs == [library : BOOLEAN, api_key : BOOLEAN]

-----------------------------------------------------------------------------
(* Python str operations on sequences of characters *)

UpperChars == <<"A", "B", "C", "D", "E", "F", "G", "H", "I", "J", "K", "L", "M",
                "N", "O", "P", "Q", "R", "S", "T", "U", "V", "W", "X", "Y", "Z">>
LowerChars == <<"a", "b", "c", "d", "e", "f", "g", "h", "i", "j", "k", "l", "m",
                "n", "o", "p", "q", "r", "s", "t", "u", "v", "w", "x", "y", "z">>
DigitChars == <<"0", "1", "2", "3", "4", "5", "6", "7", "8", "9">>

Range(f) == {f[i] : i \in DOMAIN f}
IsUpper(c) == c \in Range(UpperChars)
IsLower(c) == c \in Range(LowerChars)
IsDigit(c) == c \in Range(DigitChars)
IsSpace(c) == c \in {" ", "\n", "\t"}

LowerChar(c) ==
    IF IsUpper(c) THEN LowerChars[CHOOSE i \in 1..26 : UpperChars[i] = c] ELSE c
UpperChar(c) ==
    IF IsLower(c) THEN UpperChars[CHOOSE i \in 1..26 : LowerChars[i] = c] ELSE c

\* str.lower()
Lower(s) == [i \in 1..Len(s) |-> LowerChar(s[i])]

\* s[a:b] with 1-based inclusive positions; empty when a > b
Slice(s, a, b) == IF a > b THEN <<>> ELSE SubSeq(s, a, b)

\* s.startswith(prefix)
StartsWith(s, prefix) ==
    Len(prefix) <= Len(s) /\ SubSeq(s, 1, Len(prefix)) = prefix

\* sub in s
Contains(s, sub) ==
    \E i \in 1..(Len(s) - Len(sub) + 1) : SubSeq(s, i, i + Len(sub) - 1) = sub

\* str.strip()
Strip(s) ==
    LET keep == {i \in 1..Len(s) : ~ IsSpace(s[i])} IN
    IF keep = {} THEN <<>>
    ELSE SubSeq(s, CHOOSE i \in keep : \A j \in keep : i <= j,
                   CHOOSE i \in keep : \A j \in keep : i >= j)

-----------------------------------------------------------------------------
(* services/portfolio_enrichment.py: the reference data *)

Name_GridPulse == <<"G", "r", "i", "d", "P", "u", "l", "s", "e">>
Site_GridPulse ==
    <<"h", "t", "t", "p", "s", ":", "/", "/", "g", "r", "i", "d", "p", "u", "l", "s", "e", ".", "e", "x", "a", "m", "p", "l", "e", ".", "c", "o", "m">>
Name_ThermaLoop == <<"T", "h", "e", "r", "m", "a", "L", "o", "o", "p">>
Site_ThermaLoop ==
    <<"h", "t", "t", "p", "s", ":", "/", "/", "t", "h", "e", "r", "m", "a", "l", "o", "o", "p", ".", "e", "x", "a", "m", "p", "l", "e", ".", "c", "o", "m">>
Name_VoltStor == <<"V", "o", "l", "t", "S", "t", "o", "r">>
Site_VoltStor ==
    <<"h", "t", "t", "p", "s", ":", "/", "/", "v", "o", "l", "t", "s", "t", "o", "r", ".", "e", "x", "a", "m", "p", "l", "e", ".", "c", "o", "m">>
Name_FluxCharge == <<"F", "l", "u", "x", "C", "h", "a", "r", "g", "e">>
Site_FluxCharge ==
    <<"h", "t", "t", "p", "s", ":", "/", "/", "f", "l", "u", "x", "c", "h", "a", "r", "g", "e", ".", "e", "x", "a", "m", "p", "l", "e", ".", "c", "o", "m">>
Name_AeroGrid == <<"A", "e", "r", "o", "G", "r", "i", "d">>
Site_AeroGrid ==
    <<"h", "t", "t", "p", "s", ":", "/", "/", "a", "e", "r", "o", "g", "r", "i", "d", ".", "e", "x", "a", "m", "p", "l", "e", ".", "c", "o", "m">>
Name_SunPeak == <<"S", "u", "n", "P", "e", "a", "k">>
Site_SunPeak ==
    <<"h", "t", "t", "p", "s", ":", "/", "/", "s", "u", "n", "p", "e", "a", "k", ".", "e", "x", "a", "m", "p", "l", "e", ".", "c", "o", "m">>

\* mock_portfolio_data(), flattened; the descriptions are non-empty texts
MockDescription == <<"S", "m", "a", "r", "t", " ", "g", "r", "i", "d">>

mock_portfolio_data ==
    <<Company(Name_GridPulse, Site_GridPulse, MockDescription, "Series A", <<"E", "I", "P">>, EmptyStr),
      Company(Name_ThermaLoop, Site_ThermaLoop, MockDescription, "Series C", <<"E", "I", "P">>, EmptyStr),
      Company(Name_VoltStor, Site_VoltStor, MockDescription, "Series D", <<"E", "I", "P">>, EmptyStr),
      Company(Name_FluxCharge, Site_FluxCharge, MockDescription, "Seed", <<"S", "E", "T">>, EmptyStr),
      Company(Name_AeroGrid, Site_AeroGrid, MockDescription, "Series B", <<"S", "E", "T">>, EmptyStr),
      Company(Name_SunPeak, Site_SunPeak, MockDescription, "Series E", <<"S", "E", "T">>, EmptyStr)>>

\* main: mock_lookup = {c.name.lower(): c for ... in mock_data.values()}
mock_lookup_keys == {Lower(mock_portfolio_data[i].name) : i \in DOMAIN mock_portfolio_data}
mock_lookup(key) ==
    mock_portfolio_data[CHOOSE i \in DOMAIN mock_portfolio_data :
                            /\ Lower(mock_portfolio_data[i].name) = key
                            /\ \A j \in DOMAIN mock_portfolio_data :
                                  Lower(mock_portfolio_data[j].name) = key => j <= i]

\* load_enrichment_map()
enrichment_map_keys ==
    {<<"g", "r", "i", "d", "p", "u", "l", "s", "e">>,
     <<"t", "h", "e", "r", "m", "a", "l", "o", "o", "p">>,
     <<"v", "o", "l", "t", "s", "t", "o", "r">>,
     <<"f", "l", "u", "x", "c", "h", "a", "r", "g", "e">>,
     <<"a", "e", "r", "o", "g", "r", "i", "d">>,
     <<"s", "u", "n", "p", "e", "a", "k">>}
enrichment_map(key) ==
    CASE key = <<"g", "r", "i", "d", "p", "u", "l", "s", "e">> -> "Series A"
      [] key = <<"t", "h", "e", "r", "m", "a", "l", "o", "o", "p">> -> "Series C"
      [] key = <<"v", "o", "l", "t", "s", "t", "o", "r">> -> "Series D"
      [] key = <<"f", "l", "u", "x", "c", "h", "a", "r", "g", "e">> -> "Seed"
      [] key = <<"a", "e", "r", "o", "g", "r", "i", "d">> -> "Series B"
      [] key = <<"s", "u", "n", "p", "e", "a", "k">> -> "Series E"

-----------------------------------------------------------------------------
(* services/portfolio_enrichment.py: _hash_round_stage *)

\* hashlib.sha256(s.encode("utf-8")).hexdigest() as its 64 hexadecimal digits, for
\* the byte strings the model hashes (values computed with hashlib)
Sha256Hex(s) ==
    CASE s = <<>> ->
          <<14, 3, 11, 0, 12, 4, 4, 2, 9, 8, 15, 12, 1, 12, 1, 4, 9, 10, 15, 11, 15, 4,
            12, 8, 9, 9, 6, 15, 11, 9, 2, 4, 2, 7, 10, 14, 4, 1, 14, 4, 6, 4, 9, 11,
            9, 3, 4, 12, 10, 4, 9, 5, 9, 9, 1, 11, 7, 8, 5, 2, 11, 8, 5, 5>>
      [] s = <<"b">> ->
          <<3, 14, 2, 3, 14, 8, 1, 6, 0, 0, 3, 9, 5, 9, 4, 10, 3, 3, 8, 9, 4, 15,
            6, 5, 6, 4, 14, 1, 11, 1, 3, 4, 8, 11, 11, 13, 7, 10, 0, 0, 8, 8, 13, 4,
            2, 12, 4, 10, 12, 11, 7, 3, 14, 14, 10, 14, 13, 5, 9, 12, 0, 0, 9, 13>>
      [] s = <<"B">> ->
          <<13, 15, 7, 14, 7, 0, 14, 5, 0, 2, 1, 5, 4, 4, 15, 4, 8, 3, 4, 11, 11, 14,
            14, 6, 4, 10, 9, 14, 3, 7, 8, 9, 15, 14, 11, 12, 4, 11, 14, 8, 1, 4, 7, 0,
            13, 15, 6, 2, 9, 12, 10, 13, 6, 13, 13, 11, 0, 3, 3, 2, 0, 10, 5, 12>>
      [] s = <<"k">> ->
          <<8, 2, 5, 4, 12, 3, 2, 9, 10, 9, 2, 8, 5, 0, 15, 6, 13, 5, 3, 9, 13, 13,
            3, 7, 6, 15, 4, 8, 1, 6, 14, 14, 2, 7, 6, 4, 5, 1, 7, 13, 10, 5, 14, 0,
            2, 3, 5, 5, 1, 4, 10, 15, 4, 3, 3, 1, 6, 4, 4, 8, 0, 13, 7, 10>>
      [] s = <<"K">> ->
          <<8, 6, 11, 14, 9, 10, 5, 5, 7, 6, 2, 13, 3, 1, 6, 10, 3, 0, 2, 6, 12, 2,
            8, 3, 6, 13, 0, 4, 4, 15, 5, 15, 12, 7, 6, 14, 3, 4, 13, 10, 1, 0, 14, 1,
            11, 4, 5, 15, 14, 14, 14, 5, 15, 1, 8, 11, 14, 7, 14, 13, 11, 1, 7, 7>>
      [] s = <<"m">> ->
          <<6, 2, 12, 6, 6, 10, 7, 10, 5, 13, 13, 7, 0, 12, 3, 1, 4, 6, 6, 1, 8, 0,
            6, 3, 12, 3, 4, 4, 14, 5, 3, 1, 14, 6, 13, 4, 11, 5, 9, 14, 3, 7, 9, 8,
            0, 8, 4, 4, 3, 12, 14, 9, 6, 2, 11, 3, 10, 11, 13, 6, 3, 12, 5, 10>>
      [] s = <<"M">> ->
          <<0, 8, 15, 2, 7, 1, 8, 8, 7, 12, 14, 9, 4, 7, 0, 7, 13, 10, 8, 2, 2, 13,
            5, 2, 6, 3, 11, 10, 14, 1, 9, 13, 5, 5, 1, 9, 12, 11, 3, 6, 1, 4, 14, 0,
            13, 10, 14, 13, 12, 4, 12, 7, 12, 14, 5, 13, 10, 11, 7, 4, 7, 3, 15, 1>>
      [] s = <<"a", "e">> ->
          <<15, 9, 10, 0, 0, 15, 4, 3, 14, 9, 7, 14, 3, 9, 6, 6, 11, 11, 8, 4, 6, 14,
            7, 6, 11, 6, 7, 9, 5, 14, 1, 1, 5, 1, 2, 12, 3, 11, 11, 15, 10, 7, 8, 7,
            14, 6, 11, 7, 0, 14, 0, 3, 1, 0, 12, 7, 11, 9, 3, 4, 6, 11, 9, 8>>
      [] s = <<"A", "e">> ->
          <<1, 12, 14, 2, 3, 2, 12, 15, 9, 7, 15, 10, 4, 7, 11, 4, 13, 15, 15, 14, 9, 0,
            0, 3, 11, 0, 8, 6, 13, 13, 1, 10, 4, 8, 12, 3, 10, 11, 12, 12, 5, 8, 13, 11,
            7, 9, 5, 5, 11, 2, 5, 14, 3, 2, 14, 7, 11, 5, 3, 5, 7, 10, 3, 15>>
      [] s = <<"n", "o">> ->
          <<9, 3, 9, 0, 2, 9, 8, 15, 3, 15, 11, 0, 12, 5, 11, 1, 6, 0, 4, 9, 8, 9,
            3, 5, 13, 7, 9, 12, 11, 1, 3, 9, 10, 14, 15, 2, 8, 14, 1, 12, 4, 7, 3, 5,
            8, 11, 4, 11, 11, 11, 10, 6, 1, 8, 6, 2, 11, 9, 12, 2, 6, 14, 5, 9>>
      [] s = <<"N", "o">> ->
          <<1, 14, 10, 4, 4, 2, 10, 1, 3, 4, 11, 2, 10, 1, 8, 4, 11, 13, 5, 13, 4, 0,
            1, 0, 4, 4, 0, 1, 15, 2, 10, 3, 7, 15, 11, 12, 0, 9, 12, 12, 15, 3, 15, 4,
            11, 12, 9, 13, 10, 1, 6, 1, 12, 6, 0, 9, 9, 11, 14, 3, 6, 9, 1, 13>>
      [] s = <<"g", "r", "i", "d", "p", "u", "l", "s", "e">> ->
          <<4, 2, 1, 9, 5, 3, 14, 4, 2, 12, 6, 1, 14, 10, 0, 4, 2, 12, 5, 0, 11, 12,
            1, 2, 14, 11, 9, 10, 12, 2, 0, 5, 2, 4, 5, 13, 7, 11, 1, 7, 15, 13, 5, 2,
            11, 12, 7, 12, 6, 8, 7, 6, 13, 1, 14, 8, 12, 11, 10, 3, 13, 6, 0, 9>>
      [] s = <<"G", "r", "i", "d", "P", "u", "l", "s", "e">> ->
          <<3, 15, 15, 9, 12, 13, 7, 13, 8, 11, 14, 7, 0, 3, 4, 10, 9, 9, 6, 14, 2, 10,
            10, 0, 1, 11, 0, 4, 9, 7, 8, 5, 13, 7, 12, 10, 9, 9, 6, 5, 7, 3, 6, 14,
            0, 9, 5, 9, 12, 10, 13, 10, 4, 11, 9, 10, 13, 15, 11, 15, 0, 11, 12, 6>>

\* b^e % m
RECURSIVE PowMod(_, _, _)
PowMod(b, e, m) ==
    IF e = 0 THEN 1 % m
    ELSE IF e % 2 = 0 THEN (PowMod(b, e \div 2, m) * PowMod(b, e \div 2, m)) % m
    ELSE (b * PowMod(b, e - 1, m)) % m

\* int(digest[lo..hi], 16) % m, by halves (the digest is a 256-bit number)
RECURSIVE HexModRange(_, _, _, _)
HexModRange(digest, lo, hi, m) ==
    IF lo = hi THEN digest[lo] % m
    ELSE LET mid == (lo + hi) \div 2 IN
         (HexModRange(digest, lo, mid, m) * PowMod(16, hi - mid, m)
            + HexModRange(digest, mid + 1, hi, m)) % m

\* int(digest, 16) % m
HexMod(digest, m) == HexModRange(digest, 1, Len(digest), m)

hash_rounds == <<"Seed", "Series A", "Series B", "Series C", "Series D">>

\* a plausible slip: the name is hashed as given, without lower()
hash_round_stage_NoLower(name) ==
    IF ~ Truthy(name) THEN "Seed"
    ELSE hash_rounds[HexMod(Sha256Hex(name), Len(hash_rounds)) + 1]

hash_round_stage(name) ==
    IF ~ Truthy(name) THEN "Seed"
    ELSE hash_rounds[HexMod(Sha256Hex(Lower(name)), Len(hash_rounds)) + 1]

-----------------------------------------------------------------------------
(* html.parser.HTMLParser: a document reaches a parser as start-tag, end-tag  *)
(* and text events; tag names arrive lowercased; an attribute that is absent  *)
(* or has no value reads as the empty string (attr_map.get(k, ""), v or "")   *)

Attrs(class, href, aria_label, name, property, content) ==
    [class |-> class, href |-> href, aria_label |-> aria_label,
     name |-> name, property |-> property, content |-> content]
NoAttrs == Attrs(EmptyStr, EmptyStr, EmptyStr, EmptyStr, EmptyStr, EmptyStr)

StartTag(tag, attrs) == [type |-> "start", tag |-> tag, attrs |-> attrs, data |-> EmptyStr]
EndTag(tag) == [type |-> "end", tag |-> tag, attrs |-> NoAttrs, data |-> EmptyStr]
Data(text) == [type |-> "data", tag |-> "", attrs |-> NoAttrs, data |-> text]

\* a marked section with an unknown keyword, such as <![foo bar]>: no handler is
\* called for it. html.parser of CPython up to 3.12 raises AssertionError from
\* parse_marked_section, later releases take it for a comment; no parser class
\* of the repository handles it and feed is called outside any try block.
MarkedSection == [type |-> "decl", tag |-> "", attrs |-> NoAttrs, data |-> EmptyStr]
MarkedSectionOutcomes == {"", "AssertionError"}

-----------------------------------------------------------------------------
(* services/portfolio_enrichment.py: enrich_from_vc_profile *)

Str_description == <<"d", "e", "s", "c", "r", "i", "p", "t", "i", "o", "n">>
Str_og_description == <<"o", "g", ":", "d", "e", "s", "c", "r", "i", "p", "t", "i", "o", "n">>
Str_http == <<"h", "t", "t", "p", ":", "/", "/">>
Str_https == <<"h", "t", "t", "p", "s", ":", "/", "/">>
Str_setventures_com == <<"s", "e", "t", "v", "e", "n", "t", "u", "r", "e", "s", ".", "c", "o", "m">>

\* _MetaDescriptionParser
MetaParserInit ==
    [meta_description |-> EmptyStr, og_description |-> EmptyStr,
     first_paragraph |-> EmptyStr, in_paragraph |-> FALSE]

Meta_handle_starttag(st, tag, attrs) ==
    LET name == Lower(attrs.name)
        prop == Lower(attrs.property)
        content == Strip(attrs.content)
        st1 == IF tag = "meta" /\ name = Str_description /\ Truthy(content)
                  /\ ~ Truthy(st.meta_description)
               THEN [st EXCEPT !.meta_description = content] ELSE st
        st2 == IF tag = "meta" /\ prop = Str_og_description /\ Truthy(content)
                  /\ ~ Truthy(st1.og_description)
               THEN [st1 EXCEPT !.og_description = content] ELSE st1
    IN  IF tag = "p" /\ ~ Truthy(st2.first_paragraph)
        THEN [st2 EXCEPT !.in_paragraph = TRUE] ELSE st2

Meta_handle_endtag(st, tag) ==
    IF tag = "p" THEN [st EXCEPT !.in_paragraph = FALSE] ELSE st

Meta_handle_data(st, data) ==
    IF st.in_paragraph /\ ~ Truthy(st.first_paragraph) /\ Truthy(Strip(data))
    THEN [st EXCEPT !.first_paragraph = Strip(data)] ELSE st

Meta_handle(st, ev) ==
    CASE ev.type = "start" -> Meta_handle_starttag(st, ev.tag, ev.attrs)
      [] ev.type = "end" -> Meta_handle_endtag(st, ev.tag)
      [] ev.type = "data" -> Meta_handle_data(st, ev.data)
      [] OTHER -> st

\* description_parser.feed(html)
RECURSIVE Meta_feed(_, _, _)
Meta_feed(st, html, i) ==
    IF i > Len(html) THEN st ELSE Meta_feed(Meta_handle(st, html[i]), html, i + 1)

\* _ExternalLinkParser.handle_starttag; the state is first_external_link
Link_handle_starttag(first_external_link, tag, attrs) ==
    IF tag # "a" THEN first_external_link
    ELSE IF ~ Truthy(attrs.href)
            \/ ~ (StartsWith(attrs.href, Str_http) \/ StartsWith(attrs.href, Str_https))
         THEN first_external_link
    ELSE IF Contains(attrs.href, Str_setventures_com) THEN first_external_link
    ELSE IF ~ Truthy(first_external_link) THEN attrs.href
    ELSE first_external_link

\* link_parser.feed(html)
RECURSIVE Link_feed(_, _, _)
Link_feed(first_external_link, html, i) ==
    IF i > Len(html) THEN first_external_link
    ELSE Link_feed(IF html[i].type = "start"
                   THEN Link_handle_starttag(first_external_link, html[i].tag, html[i].attrs)
                   ELSE first_external_link,
                   html, i + 1)

\* urllib.request.Request(url): ValueError("unknown url type") unless the url
\* starts with a scheme, one or more characters other than "/" and ":" then ":"
HasUrlType(url) ==
    \E i \in 2..Len(url) :
        /\ url[i] = ":"
        /\ \A j \in 1..(i - 1) : url[j] \notin {"/", ":"}

\* what urlopen(request, timeout) and response.read() can do
NetOutcomes == {"ok", "HTTPError", "URLError", "TimeoutError"}

\* except (urllib.error.URLError, TimeoutError)
FetchVcHandlers == {"URLError", "TimeoutError"}

NoneHtml == [none |-> TRUE, events |-> <<>>]
Html(events) == [none |-> FALSE, events |-> events]

\* _fetch_vc_html(url): the request is built outside the try block
fetch_vc_html(url, outcome, events) ==
    IF ~ HasUrlType(url) THEN Escaped("ValueError")
    ELSE IF outcome = "ok" THEN Returned(Html(events))
    ELSE IF Catches(FetchVcHandlers, outcome) THEN Returned(NoneHtml)
    ELSE Escaped(outcome)

\* `if not html`: None or the empty text
NotHtml(html) == html.none \/ html.events = <<>>

\* enrich_from_vc_profile(company) after a fetch that returned html
apply_vc_profile(company, html) ==
    LET description_parser == Meta_feed(MetaParserInit, html.events, 1)
        description ==
            IF Truthy(description_parser.meta_description)
            THEN description_parser.meta_description
            ELSE IF Truthy(description_parser.og_description)
            THEN description_parser.og_description
            ELSE description_parser.first_paragraph
        c1 == IF Truthy(description)
              THEN [company EXCEPT !.description = description] ELSE company
        first_external_link == Link_feed(EmptyStr, html.events, 1)
    IN  IF ~ Truthy(c1.website) /\ Truthy(first_external_link)
        THEN [c1 EXCEPT !.website = first_external_link] ELSE c1

\* does enrich_from_vc_profile reach _fetch_vc_html
NeedsProfileFetch(company) ==
    ~ Truthy(company.description) /\ Truthy(company.profile_url)

\* fill_missing_fields(company, mock_map)
fill_missing_fields(company) ==
    LET key == Lower(company.name) IN
    IF key \in mock_lookup_keys
    THEN LET mock == mock_lookup(key)
             c1 == IF ~ Truthy(company.website)
                   THEN [company EXCEPT !.website = mock.website] ELSE company
         IN  IF c1.last_round = UNKNOWN
             THEN [c1 EXCEPT !.last_round = mock.last_round] ELSE c1
    ELSE company

\* a plausible slip: the round is looked up whether or not it is already known
enrich_round_Overwrite(company) ==
    LET key == Lower(company.name) IN
    IF key \in enrichment_map_keys
    THEN [company EXCEPT !.last_round = enrichment_map(key)]
    ELSE [company EXCEPT !.last_round = hash_round_stage(company.name)]

\* a plausible slip: no hash fallback when the round map has no entry
enrich_round_NoFallback(company) ==
    LET key == Lower(company.name) IN
    IF company.last_round # UNKNOWN THEN company
    ELSE IF key \in enrichment_map_keys
    THEN [company EXCEPT !.last_round = enrichment_map(key)]
    ELSE company

\* enrich_round(company, round_map); every value of the map is truthy
enrich_round(company) ==
    LET key == Lower(company.name) IN
    IF company.last_round # UNKNOWN THEN company
    ELSE IF key \in enrichment_map_keys
    THEN [company EXCEPT !.last_round = enrichment_map(key)]
    ELSE [company EXCEPT !.last_round = hash_round_stage(company.name)]

-----------------------------------------------------------------------------
(* More str operations (re.sub, str.title, str.isupper, str.replace, split) *)

MinOf(S) == CHOOSE x \in S : \A y \in S : x <= y
MaxOf(S) == CHOOSE x \in S : \A y \in S : x >= y

IsCased(c) == IsUpper(c) \/ IsLower(c)

\* re.sub(r"\s+", " ", text).strip()
RECURSIVE CollapseSpace(_, _)
CollapseSpace(s, i) ==
    IF i > Len(s) THEN <<>>
    ELSE IF IsSpace(s[i])
         THEN IF i > 1 /\ IsSpace(s[i - 1]) THEN CollapseSpace(s, i + 1)
              ELSE <<" ">> \o CollapseSpace(s, i + 1)
    ELSE <<s[i]>> \o CollapseSpace(s, i + 1)

NormalizeSpace(text) == Strip(CollapseSpace(text, 1))

\* str.isupper(): a cased character, and no lowercase one
IsUpperStr(s) ==
    /\ \E i \in 1..Len(s) : IsCased(s[i])
    /\ \A i \in 1..Len(s) : ~ IsLower(s[i])

\* str.title(): a cased character is uppercased after an uncased one (or at the
\* start) and lowercased after a cased one
Title(s) ==
    [i \in 1..Len(s) |->
        IF i > 1 /\ IsCased(s[i - 1]) THEN LowerChar(s[i]) ELSE UpperChar(s[i])]

\* s.replace(old, new), every occurrence, left to right
RECURSIVE ReplaceAll(_, _, _)
ReplaceAll(s, old, new) ==
    IF s = <<>> THEN <<>>
    ELSE IF StartsWith(s, old)
         THEN new \o ReplaceAll(Slice(s, Len(old) + 1, Len(s)), old, new)
    ELSE <<s[1]>> \o ReplaceAll(Slice(s, 2, Len(s)), old, new)

\* the position of the first character of s, from position p on, that is in cs;
\* Len(s) + 1 when there is none
FindAny(s, p, cs) ==
    LET hits == {i \in p..Len(s) : s[i] \in cs} IN
    IF hits = {} THEN Len(s) + 1 ELSE MinOf(hits)

\* " ".join(parts)
RECURSIVE JoinSpace(_)
JoinSpace(parts) ==
    IF parts = <<>> THEN <<>>
    ELSE IF Len(parts) = 1 THEN parts[1]
    ELSE parts[1] \o <<" ">> \o JoinSpace(Tail(parts))

-----------------------------------------------------------------------------
(* services/portfolio_scraper.py: infer_company_name *)

\* [A-Za-z0-9&.+-]
IsTokChar(c) == IsUpper(c) \/ IsLower(c) \/ IsDigit(c) \/ c \in {"&", ".", "+", "-"}
\* \w
IsWordChar(c) == IsUpper(c) \/ IsLower(c) \/ IsDigit(c) \/ c = "_"
\* the character class in front of the possessive s, as the source file has it:
\* U+00E2, U+20AC, U+2122 and the apostrophe
PossessiveChars == {"U+00E2", "U+20AC", "U+2122", "'"}

\* the last position of the run of token characters / of whitespace that starts at p
TokEnd(s, p) ==
    LET stop == {j \in p..Len(s) : ~ IsTokChar(s[j])} IN
    IF stop = {} THEN Len(s) ELSE MinOf(stop) - 1
SpaceEnd(s, p) ==
    LET stop == {j \in p..Len(s) : ~ IsSpace(s[j])} IN
    IF stop = {} THEN Len(s) ELSE MinOf(stop) - 1

\* the positions where [A-Z][A-Za-z0-9&.+-]*(?:\s+[A-Z][A-Za-z0-9&.+-]*){0,k-1}
\* can end when it starts at p, shortest first
RECURSIVE PhraseEnds(_, _, _)
PhraseEnds(s, p, k) ==
    IF k = 0 \/ p > Len(s) THEN <<>>
    ELSE IF ~ IsUpper(s[p]) THEN <<>>
    ELSE LET e == TokEnd(s, p) IN
         IF e + 1 <= Len(s) /\ IsSpace(s[e + 1])
         THEN <<e>> \o PhraseEnds(s, SpaceEnd(s, e + 1) + 1, k - 1)
         ELSE <<e>>

\* \b after a word character at position e
BoundaryAfter(s, e) == e + 1 > Len(s) \/ ~ IsWordChar(s[e + 1])
\* \b before a word character at position p
BoundaryBefore(s, p) == p = 1 \/ ~ IsWordChar(s[p - 1])

\* [...']s\b right after position e
PossessiveAfter(s, e) ==
    /\ e + 2 <= Len(s)
    /\ s[e + 1] \in PossessiveChars
    /\ s[e + 2] = "s"
    /\ BoundaryAfter(s, e + 2)

Verbs ==
    {<<"i", "s">>,
     <<"a", "r", "e">>,
     <<"p", "r", "o", "v", "i", "d", "e", "s">>,
     <<"d", "e", "v", "e", "l", "o", "p", "s">>,
     <<"b", "u", "i", "l", "d", "s">>,
     <<"o", "f", "f", "e", "r", "s">>,
     <<"d", "e", "l", "i", "v", "e", "r", "s">>,
     <<"e", "n", "a", "b", "l", "e", "s">>}

\* \s+(is|are|...)\b right after position e
VerbAfter(s, e) ==
    /\ e + 1 <= Len(s)
    /\ IsSpace(s[e + 1])
    /\ LET q == SpaceEnd(s, e + 1) + 1 IN
       \E v \in Verbs :
          /\ q + Len(v) - 1 <= Len(s)
          /\ SubSeq(s, q, q + Len(v) - 1) = v
          /\ BoundaryAfter(s, q + Len(v) - 1)

NoMatch == [found |-> FALSE, text |-> <<>>]
Match(text) == [found |-> TRUE, text |-> text]

\* re.match(r"^(phrase)[...']s\b", description): group(1).strip()
match_possessive(description) ==
    LET ends == PhraseEnds(description, 1, 4)
        ok == {i \in DOMAIN ends : PossessiveAfter(description, ends[i])}
    IN  IF ok = {} THEN NoMatch
        ELSE Match(Strip(Slice(description, 1, ends[MaxOf(ok)])))

\* re.search(r"\b(phrase)\s+(is|are|...)\b", description): group(1).strip()
search_verb(description) ==
    LET oks(p) == {i \in DOMAIN PhraseEnds(description, p, 4) :
                      VerbAfter(description, PhraseEnds(description, p, 4)[i])}
        starts == {p \in 1..Len(description) :
                      /\ IsUpper(description[p])
                      /\ BoundaryBefore(description, p)
                      /\ oks(p) # {}}
    IN  IF starts = {} THEN NoMatch
        ELSE LET p == MinOf(starts) IN
             Match(Strip(Slice(description, p,
                               PhraseEnds(description, p, 4)[MaxOf(oks(p))])))

Str_Unknown == <<"U", "n", "k", "n", "o", "w", "n">>
Str_slashes == <<"/", "/">>
Str_www == <<"w", "w", "w", ".">>

\* urlparse(website).hostname or "", for a website without userinfo, port and
\* brackets: the scheme is a letter followed by letters, digits, "+", "-", "."
\* up to the first ":"; the host is what follows "//" up to "/", "?" or "#",
\* lowercased
url_hostname(website) ==
    LET colon == FindAny(website, 1, {":"})
        has_scheme ==
            /\ colon > 1 /\ colon <= Len(website)
            /\ IsCased(website[1])
            /\ \A i \in 1..(colon - 1) :
                  IsCased(website[i]) \/ IsDigit(website[i]) \/ website[i] \in {"+", "-", "."}
        rest == IF has_scheme THEN Slice(website, colon + 1, Len(website)) ELSE website
    IN  IF StartsWith(rest, Str_slashes)
        THEN Lower(Slice(rest, 3, FindAny(rest, 3, {"/", "?", "#"}) - 1))
        ELSE <<>>

\* infer_company_name(description, website)
infer_company_name(description, website) ==
    LET m1 == IF Truthy(description) THEN match_possessive(description) ELSE NoMatch
        m2 == IF Truthy(description) THEN search_verb(description) ELSE NoMatch
        host == IF Truthy(website)
                THEN ReplaceAll(url_hostname(website), Str_www, <<>>) ELSE <<>>
    IN  IF m1.found THEN m1.text
        ELSE IF m2.found THEN m2.text
        ELSE IF Truthy(host)
        THEN Title(ReplaceAll(ReplaceAll(Slice(host, 1, FindAny(host, 1, {"."}) - 1),
                                         <<"-">>, <<" ">>), <<"_">>, <<" ">>))
        ELSE Str_Unknown

-----------------------------------------------------------------------------
(* services/portfolio_scraper.py: fetch_html *)

Str_file == <<"f", "i", "l", "e", ":", "/", "/">>

\* except urllib.error.HTTPError / except (urllib.error.URLError, TimeoutError)
FetchHandlers == {"HTTPError", "URLError", "TimeoutError"}
\* except OSError around read_bytes
ReadHandlers == {"OSError"}

\* what the world does during one fetch_html call: whether Path(url) exists, and
\* how the read or the request ends, with an empty or a non-empty body
FetchEnvs ==
    [exists : BOOLEAN, outcome : {"ok", "OSError", "HTTPError", "URLError", "TimeoutError"},
     empty : BOOLEAN]

\* the text fetch_html returns is kept as "text" (non-empty) or "" (empty);
\* "None" is the no-document value
Body(env) == IF env.empty THEN "" ELSE "text"

FetchReturn(value, n) == [exc |-> "", value |-> value, attempts |-> n]
FetchRaise(exc, n) == [exc |-> exc, value |-> "None", attempts |-> n]

\* local_path.read_bytes() in its try block, then decode(errors="replace")
read_local(env) ==
    IF env.outcome = "ok" THEN FetchReturn(Body(env), 0)
    ELSE IF Catches(ReadHandlers, env.outcome) THEN FetchReturn("None", 0)
    ELSE FetchRaise(env.outcome, 0)

\* fetch_html(url); attempts counts the urlopen calls
fetch_html(url, env) ==
    IF StartsWith(url, Str_file) THEN read_local(env)
    ELSE IF env.exists THEN read_local(env)
    ELSE IF ~ HasUrlType(url) THEN FetchRaise("ValueError", 0)
    ELSE IF env.outcome = "ok" THEN FetchReturn(Body(env), 1)
    ELSE IF Catches(FetchHandlers, env.outcome) THEN FetchReturn("None", 1)
    ELSE FetchRaise(env.outcome, 1)

\* the outcomes that can meet a url: a read ends ok or with OSError, a request
\* ends as NetOutcomes say; a url with a scheme is no existing path
EnvFits(url, env) ==
    /\ (StartsWith(url, Str_file) \/ HasUrlType(url)) => ~ env.exists
    /\ env.outcome # "ok" => ~ env.empty
    /\ IF StartsWith(url, Str_file) \/ env.exists
       THEN env.outcome \in {"ok", "OSError"}
       ELSE IF ~ HasUrlType(url) THEN env.outcome = "ok" /\ ~ env.empty
       ELSE env.outcome \in NetOutcomes

-----------------------------------------------------------------------------
(* services/portfolio_scraper.py: the parsers *)

Str_portfolio_item_overlay == <<"p", "o", "r", "t", "f", "o", "l", "i", "o", "-", "i", "t", "e", "m", "-", "o", "v", "e", "r", "l", "a", "y">>
Str_text == <<"t", "e", "x", "t">>
Str_portfolio_site_url == <<"p", "o", "r", "t", "f", "o", "l", "i", "o", "-", "s", "i", "t", "e", "-", "u", "r", "l">>
Str_nectar_post_grid_link == <<"n", "e", "c", "t", "a", "r", "-", "p", "o", "s", "t", "-", "g", "r", "i", "d", "-", "l", "i", "n", "k">>
Str_energyimpactpartners_com == <<"e", "n", "e", "r", "g", "y", "i", "m", "p", "a", "c", "t", "p", "a", "r", "t", "n", "e", "r", "s", ".", "c", "o", "m">>

\* EIPPortfolioParser
EIPInit ==
    [in_overlay |-> FALSE, in_text |-> FALSE, overlay_div_depth |-> 0,
     current_description |-> <<>>, current_site |-> EmptyStr, entries |-> <<>>]

\* an attribute written without a value: HTMLParser passes None for it
None == <<"None">>

\* attr_map = {k.lower(): (v or "") for k, v in attrs}
attr_map(attrs) == [k \in DOMAIN attrs |-> IF attrs[k] = None THEN EmptyStr ELSE attrs[k]]

\* "marker" in value raises TypeError, and value.strip() AttributeError, when the
\* value is None
RaisesOnNone(value) == value = None

\* the exception EIPPortfolioParser.handle_starttag raises, "" if none: the class
\* value is searched for every div, and for an anchor inside a block
EIP_starttag_raises(st, tag, rawattrs) ==
    LET attrs == attr_map(rawattrs) IN
    IF RaisesOnNone(attrs.class) /\ (tag = "div" \/ (st.in_overlay /\ tag = "a"))
    THEN "TypeError" ELSE ""

EIP_handle_starttag(st, tag, rawattrs) ==
    LET attrs == attr_map(rawattrs)
        st1 == IF tag = "div" /\ Contains(attrs.class, Str_portfolio_item_overlay)
               THEN [st EXCEPT !.in_overlay = TRUE, !.overlay_div_depth = 1,
                               !.current_description = <<>>, !.current_site = EmptyStr]
               ELSE IF st.in_overlay /\ tag = "div"
               THEN [st EXCEPT !.overlay_div_depth = @ + 1]
               ELSE st
        st2 == IF st1.in_overlay /\ tag = "div" /\ Contains(attrs.class, Str_text)
               THEN [st1 EXCEPT !.in_text = TRUE] ELSE st1
    IN  IF st2.in_overlay /\ tag = "a" /\ Contains(attrs.class, Str_portfolio_site_url)
           /\ Truthy(attrs.href)
        THEN [st2 EXCEPT !.current_site = attrs.href] ELSE st2

EIP_handle_endtag(st, tag) ==
    LET st1 == IF st.in_overlay /\ tag = "div" /\ st.in_text
               THEN [st EXCEPT !.in_text = FALSE] ELSE st
    IN  IF st1.in_overlay /\ tag = "div"
        THEN LET st2 == [st1 EXCEPT !.overlay_div_depth = @ - 1]
                 description == Strip(JoinSpace(st2.current_description))
             IN  IF st2.overlay_div_depth > 0 THEN st2
                 ELSE IF Truthy(description) \/ Truthy(st2.current_site)
                 THEN [st2 EXCEPT !.entries = Append(@, <<description, st2.current_site>>),
                                  !.in_overlay = FALSE]
                 ELSE [st2 EXCEPT !.in_overlay = FALSE]
        ELSE st1

EIP_handle_data(st, data) ==
    IF st.in_overlay /\ st.in_text /\ Truthy(Strip(data))
    THEN [st EXCEPT !.current_description = Append(@, Strip(data))] ELSE st

\* the exception SetVenturesParser.handle_starttag raises, "" if none
SET_starttag_raises(tag, rawattrs) ==
    LET attrs == attr_map(rawattrs) IN
    IF tag # "a" THEN ""
    ELSE IF RaisesOnNone(attrs.class) THEN "TypeError"
    ELSE IF Contains(attrs.class, Str_nectar_post_grid_link)
            /\ (RaisesOnNone(attrs.aria_label) \/ RaisesOnNone(attrs.href))
    THEN "AttributeError"
    ELSE ""

\* SetVenturesParser.handle_starttag; the state is entries
SET_handle_starttag(entries, tag, rawattrs) ==
    LET attrs == attr_map(rawattrs) IN
    IF tag # "a" THEN entries
    ELSE IF Contains(attrs.class, Str_nectar_post_grid_link)
            /\ Truthy(Strip(attrs.aria_label)) /\ Truthy(Strip(attrs.href))
    THEN Append(entries, <<Strip(attrs.aria_label), Strip(attrs.href)>>)
    ELSE entries

\* AnchorLinkParser; current_href None is kept as the empty string (both falsy)
LinkParserInit == [in_anchor |-> FALSE, current_href |-> EmptyStr, links |-> <<>>]

\* handle_starttag: an href is taken only if key.lower() == "href" and value
AL_handle_starttag(st, tag, attrs) ==
    IF tag = "a"
    THEN [st EXCEPT !.in_anchor = TRUE,
                    !.current_href = IF attrs.href # None /\ Truthy(attrs.href)
                                     THEN attrs.href ELSE EmptyStr]
    ELSE st

AL_handle_endtag(st, tag) ==
    IF tag = "a" THEN [st EXCEPT !.in_anchor = FALSE, !.current_href = EmptyStr] ELSE st

AL_handle_data(st, data) ==
    IF st.in_anchor /\ Truthy(st.current_href) /\ Truthy(Strip(data))
    THEN [st EXCEPT !.links = Append(@, <<Strip(data), st.current_href>>)] ELSE st

\* AnchorTextParser
TextParserInit == [in_anchor |-> FALSE, anchors |-> <<>>]

AT_handle_starttag(st, tag) == IF tag = "a" THEN [st EXCEPT !.in_anchor = TRUE] ELSE st
AT_handle_endtag(st, tag) == IF tag = "a" THEN [st EXCEPT !.in_anchor = FALSE] ELSE st
AT_handle_data(st, data) ==
    IF st.in_anchor /\ Truthy(Strip(data))
    THEN [st EXCEPT !.anchors = Append(@, Strip(data))] ELSE st

\* 2 <= len(cleaned) <= 60
NameLengthOk(cleaned) == 2 <= Len(cleaned) /\ Len(cleaned) <= 60

\* extract_company_names_from_html, from parser.anchors on: the length filter
RECURSIVE filter_names(_, _)
filter_names(anchors, i) ==
    IF i > Len(anchors) THEN <<>>
    ELSE LET cleaned == NormalizeSpace(anchors[i]) IN
         IF NameLengthOk(cleaned) THEN <<cleaned>> \o filter_names(anchors, i + 1)
         ELSE filter_names(anchors, i + 1)

\* ... and the deduplication loop
RECURSIVE dedup_names(_, _, _, _)
dedup_names(names, i, seen, unique) ==
    IF i > Len(names) THEN unique
    ELSE IF Lower(names[i]) \notin seen
         THEN dedup_names(names, i + 1, seen \cup {Lower(names[i])}, Append(unique, names[i]))
    ELSE dedup_names(names, i + 1, seen, unique)

extract_company_names(anchors) == dedup_names(filter_names(anchors, 1), 1, {}, <<>>)

\* a plausible slip: the seen set holds the names as written, not lowercased
RECURSIVE extract_entries_loop_CaseSensitive(_, _, _, _)
extract_entries_loop_CaseSensitive(links, i, seen, entries) ==
    IF i > Len(links) THEN entries
    ELSE LET cleaned == NormalizeSpace(links[i][1])
             href == links[i][2]
         IN  IF ~ NameLengthOk(cleaned)
             THEN extract_entries_loop_CaseSensitive(links, i + 1, seen, entries)
             ELSE IF ~ (StartsWith(href, Str_http) \/ StartsWith(href, Str_https))
             THEN extract_entries_loop_CaseSensitive(links, i + 1, seen, entries)
             ELSE IF cleaned \in seen
             THEN extract_entries_loop_CaseSensitive(links, i + 1, seen, entries)
             ELSE extract_entries_loop_CaseSensitive(links, i + 1, seen \cup {cleaned},
                                                     Append(entries, <<cleaned, href>>))

\* extract_company_entries_from_html, from parser.links on
RECURSIVE extract_entries_loop(_, _, _, _)
extract_entries_loop(links, i, seen, entries) ==
    IF i > Len(links) THEN entries
    ELSE LET cleaned == NormalizeSpace(links[i][1])
             href == links[i][2]
         IN  IF ~ NameLengthOk(cleaned)
             THEN extract_entries_loop(links, i + 1, seen, entries)
             ELSE IF ~ (StartsWith(href, Str_http) \/ StartsWith(href, Str_https))
             THEN extract_entries_loop(links, i + 1, seen, entries)
             ELSE IF Lower(cleaned) \in seen
             THEN extract_entries_loop(links, i + 1, seen, entries)
             ELSE extract_entries_loop(links, i + 1, seen \cup {Lower(cleaned)},
                                       Append(entries, <<cleaned, href>>))

extract_company_entries(links) == extract_entries_loop(links, 1, {}, <<>>)

\* build_company_from_name(name, source, website, description, profile_url)
build_company_from_name(name, source, website, description, profile_url) ==
    Company(name, website, description, UNKNOWN, source, profile_url)

\* the extractor scrape_portfolio selects for a url
Extractor(url) ==
    IF Contains(url, Str_energyimpactpartners_com) THEN "EIP"
    ELSE IF Contains(url, Str_setventures_com) THEN "SET"
    ELSE "generic"

\* the records scrape_portfolio builds from the parsed document
eip_companies(entries, source) ==
    [i \in 1..Len(entries) |->
        build_company_from_name(infer_company_name(entries[i][1], entries[i][2]),
                                source, entries[i][2], entries[i][1], EmptyStr)]

set_companies(entries, source) ==
    [i \in 1..Len(entries) |->
        build_company_from_name(IF IsUpperStr(entries[i][1]) THEN Title(entries[i][1])
                                ELSE entries[i][1],
                                source, EmptyStr, EmptyStr, entries[i][2])]

\* a plausible slip: the second pass runs whatever the first pass kept
generic_companies_BothPasses(links, anchors, source) ==
    LET entries == extract_company_entries(links)
        names == extract_company_names(anchors)
    IN  [i \in 1..Len(entries) |->
            build_company_from_name(entries[i][1], source, entries[i][2], EmptyStr, EmptyStr)]
        \o [i \in 1..Len(names) |->
            build_company_from_name(names[i], source, EmptyStr, EmptyStr, EmptyStr)]

generic_companies(links, anchors, source) ==
    LET entries == extract_company_entries(links) IN
    IF entries # <<>>
    THEN [i \in 1..Len(entries) |->
             build_company_from_name(entries[i][1], source, entries[i][2], EmptyStr, EmptyStr)]
    ELSE LET names == extract_company_names(anchors) IN
         [i \in 1..Len(names) |->
             build_company_from_name(names[i], source, EmptyStr, EmptyStr, EmptyStr)]

-----------------------------------------------------------------------------
(* The enrichment of one record: the body of main's loop *)

\* the records that enter the pipeline
EnrichNames == {EmptyStr, Name_GridPulse, Lower(Name_GridPulse), <<"B">>, <<"k">>, <<"N", "o">>}
Site_Known == <<"h", "t", "t", "p", "s", ":", "/", "/", "w", ".", "c", "o">>
Site_External == <<"h", "t", "t", "p", "s", ":", "/", "/", "b", ".", "i", "o">>
Url_ProfileAbsolute == <<"h", "t", "t", "p", "s", ":", "/", "/", "s", "e", "t", "v", "e", "n", "t", "u", "r", "e", "s", ".", "c", "o", "m", "/", "b">>
Url_ProfileRelative == <<"/", "p", "o", "r", "t", "f", "o", "l", "i", "o", "/", "b">>
Text_Description == <<"G", "r", "i", "d">>
Url_ProfileEIP == <<"h", "t", "t", "p", "s", ":", "/", "/", "e", "n", "e", "r", "g", "y", "i", "m", "p", "a", "c", "t", "p", "a", "r", "t", "n", "e", "r", "s", ".", "c", "o", "m", "/", "b">>
Source_SET == <<"S", "E", "T">>

EnrichInputs ==
    {Company(n, w, d, r, Source_SET, p) :
        n \in EnrichNames, w \in {EmptyStr, Site_Known},
        d \in {EmptyStr, Text_Description}, r \in RoundStage,
        p \in {EmptyStr, Url_ProfileRelative, Url_ProfileAbsolute}}
    \cup {Company(<<"B">>, w, EmptyStr, UNKNOWN, <<"E", "I", "P">>, Url_ProfileEIP) :
            w \in {EmptyStr, Site_Known}}

\* the events of a profile page
ProfileEvents ==
    {StartTag("meta", Attrs(EmptyStr, EmptyStr, EmptyStr, Str_description, EmptyStr, <<"M", "d", " ">>)),
     StartTag("meta", Attrs(EmptyStr, EmptyStr, EmptyStr, Str_description, EmptyStr, <<" ">>)),
     StartTag("meta", Attrs(EmptyStr, EmptyStr, EmptyStr, EmptyStr, Str_og_description, <<"O", "g">>)),
     StartTag("p", NoAttrs),
     EndTag("p"),
     Data(<<" ", "P", "a">>),
     StartTag("a", Attrs(EmptyStr, Site_External, EmptyStr, EmptyStr, EmptyStr, EmptyStr)),
     StartTag("a", Attrs(EmptyStr, Url_ProfileAbsolute, EmptyStr, EmptyStr, EmptyStr, EmptyStr)),
     StartTag("a", Attrs(EmptyStr, Url_ProfileRelative, EmptyStr, EmptyStr, EmptyStr, EmptyStr)),
     StartTag("a", Attrs(EmptyStr, Url_ProfileEIP, EmptyStr, EmptyStr, EmptyStr, EmptyStr)),
     MarkedSection}

\* everything _fetch_vc_html(url) can do, over the outcomes of the request and
\* the pages of at most MaxPageEvents events
FetchVcResults(url) ==
    IF ~ HasUrlType(url) THEN {fetch_vc_html(url, "ok", <<>>)}
    ELSE {fetch_vc_html(url, outcome, <<>>) : outcome \in NetOutcomes \ {"ok"}}
            \cup {fetch_vc_html(url, "ok", events) :
                    events \in SeqsUpTo(ProfileEvents, MaxPageEvents)}

\* how description_parser.feed(html) can end: "" when it returns, and also
\* AssertionError when the page holds a malformed marked section
FeedOutcomes(html) ==
    IF \E i \in DOMAIN html.events : html.events[i] = MarkedSection
    THEN MarkedSectionOutcomes ELSE {""}

\* company = enrich_from_vc_profile(company)
EnrichFromVcProfile ==
    /\ epc = "profile"
    /\ IF ~ NeedsProfileFetch(ecompany)
       THEN /\ epc' = "fill"
            /\ UNCHANGED <<ecompany, profile_html, fetches, eraised>>
       ELSE \E r \in FetchVcResults(ecompany.profile_url) :
              /\ fetches' = fetches + 1
              /\ IF r.exc # ""
                 THEN /\ eraised' = r.exc
                      /\ epc' = "raised"
                      /\ UNCHANGED <<ecompany, profile_html>>
                 ELSE /\ profile_html' = r.value
                      /\ \E exc \in FeedOutcomes(r.value) :
                            IF exc # ""
                            THEN /\ eraised' = exc
                                 /\ epc' = "raised"
                                 /\ UNCHANGED ecompany
                            ELSE /\ ecompany' = IF NotHtml(r.value) THEN ecompany
                                                ELSE apply_vc_profile(ecompany, r.value)
                                 /\ epc' = "fill"
                                 /\ UNCHANGED eraised
    /\ UNCHANGED ecompany0
    /\ UNCHANGED <<fvars, hvars, svars, ivars>>

\* company = fill_missing_fields(company, mock_lookup)
FillMissingFields ==
    /\ epc = "fill"
    /\ ecompany' = fill_missing_fields(ecompany)
    /\ epc' = "round"
    /\ UNCHANGED <<ecompany0, profile_html, fetches, eraised>>
    /\ UNCHANGED <<fvars, hvars, svars, ivars>>

\* company = enrich_round(company, enrichment_map)
EnrichRound ==
    /\ epc = "round"
    /\ ecompany' = enrich_round(ecompany)
    /\ epc' = "done"
    /\ UNCHANGED <<ecompany0, profile_html, fetches, eraised>>
    /\ UNCHANGED <<fvars, hvars, svars, ivars>>

NoCompany == Company(EmptyStr, EmptyStr, EmptyStr, UNKNOWN, EmptyStr, EmptyStr)

EnrichIdle ==
    /\ epc = "idle" /\ ecompany = NoCompany /\ ecompany0 = NoCompany
    /\ profile_html = NoneHtml /\ fetches = 0 /\ eraised = ""

\* _hash_round_stage applied to the first and to the second name
HashFirst ==
    /\ hash_out[1] = ""
    /\ hash_out' = [hash_out EXCEPT ![1] = hash_round_stage(hash_in[1])]
    /\ UNCHANGED <<hash_in, fvars, evars, svars, ivars>>

HashSecond ==
    /\ hash_out[2] = ""
    /\ hash_out' = [hash_out EXCEPT ![2] = hash_round_stage(hash_in[2])]
    /\ UNCHANGED <<hash_in, fvars, evars, svars, ivars>>

HashNames ==
    {EmptyStr, <<"b">>, <<"B">>, <<"k">>, <<"K">>, <<"m">>, <<"M">>, <<"a", "e">>,
     <<"A", "e">>, <<"n", "o">>, <<"N", "o">>, Name_GridPulse, Lower(Name_GridPulse)}

HashIdle == hash_in = <<EmptyStr, EmptyStr>> /\ hash_out = <<"", "">>

-----------------------------------------------------------------------------
(* Scraping: scrape_portfolio and scrape_portfolios *)

EIP_PORTFOLIO_URLS == <<<<"h", "t", "t", "p", "s", ":", "/", "/", "w", "w", "w", ".", "e", "n", "e", "r", "g", "y", "i", "m", "p", "a", "c", "t", "p", "a", "r", "t", "n", "e", "r", "s", ".", "c", "o", "m", "/", "_", "p", "o", "r", "t", "f", "o", "l", "i", "o", "/">>>>
SET_PORTFOLIO_URLS == <<<<"h", "t", "t", "p", "s", ":", "/", "/", "w", "w", "w", ".", "s", "e", "t", "v", "e", "n", "t", "u", "r", "e", "s", ".", "c", "o", "m", "/", "p", "o", "r", "t", "f", "o", "l", "i", "o", "/">>>>
EIP_LOCAL_HTML == <<"d", "a", "t", "a", "/", "e", "n", "e", "r", "g", "y", "i", "m", "p", "a", "c", "t", "e", "r", "s", ".", "h", "t", "m", "l">>
SET_LOCAL_HTML == <<"d", "a", "t", "a", "/", "s", "e", "t", "v", "e", "n", "t", "u", "r", "e", "s", ".", "h", "t", "m", "l">>
Url_File == <<"f", "i", "l", "e", ":", "/", "/", "/", "d", "/", "p", ".", "h", "t", "m", "l">>
Url_Generic == <<"h", "t", "t", "p", "s", ":", "/", "/", "v", "c", ".", "e", "x", "a", "m", "p", "l", "e", "/", "p">>
Source_EIP == <<"E", "I", "P">>

\* the url lists of the model: main's four calls, an empty list, and a list of two
ScrapeUrlLists ==
    {<<>>, EIP_PORTFOLIO_URLS, SET_PORTFOLIO_URLS, <<EIP_LOCAL_HTML>>, <<SET_LOCAL_HTML>>,
     <<Url_File, SET_PORTFOLIO_URLS[1]>>}
ScrapeUrls ==
    {EIP_PORTFOLIO_URLS[1], SET_PORTFOLIO_URLS[1], EIP_LOCAL_HTML, SET_LOCAL_HTML,
     Url_File, Url_Generic}

\* main passes [] or mock_data["EIP"]
ScrapeFallbacks == {<<>>, SubSeq(mock_portfolio_data, 1, 3)}

Text_Possessive == <<"A", "b", "'", "s", " ", "c">>
Text_Ab == <<"A", "b">>
Text_ab == <<"a", "b">>
Text_Spaced == <<" ", "a", " ", " ", "c", " ">>
Text_Short == <<"x">>
Text_Long == [i \in 1..61 |-> "x"]
Label_ACME == <<"A", "C", "M", "E">>
Label_Acme == <<"A", "c", "m", "e">>

\* the handler calls HTMLParser.feed can make on a layout A document
EIPStartEvents ==
    {StartTag("div", Attrs(Str_portfolio_item_overlay, EmptyStr, EmptyStr, EmptyStr, EmptyStr, EmptyStr)),
     StartTag("div", Attrs(Str_text, EmptyStr, EmptyStr, EmptyStr, EmptyStr, EmptyStr)),
     StartTag("div", NoAttrs),
     StartTag("a", Attrs(Str_portfolio_site_url, Site_SunPeak, EmptyStr, EmptyStr, EmptyStr, EmptyStr)),
     StartTag("a", Attrs(Str_portfolio_site_url, EmptyStr, EmptyStr, EmptyStr, EmptyStr, EmptyStr)),
     StartTag("div", Attrs(None, EmptyStr, EmptyStr, EmptyStr, EmptyStr, EmptyStr)),
     StartTag("a", Attrs(None, None, EmptyStr, EmptyStr, EmptyStr, EmptyStr))}
EIPEndEvents == {EndTag("div"), EndTag("a")}
EIPDataEvents == {Data(Text_Possessive), Data(<<" ">>)}

\* ... on a layout B document
SETStartEvents ==
    {StartTag("a", Attrs(Str_nectar_post_grid_link, h, l, EmptyStr, EmptyStr, EmptyStr)) :
        h \in {Url_ProfileRelative, EmptyStr},
        l \in {Label_ACME, Label_Acme, <<" ">>}}
    \cup {StartTag("a", Attrs(EmptyStr, Url_ProfileRelative, Label_Acme, EmptyStr, EmptyStr, EmptyStr)),
          StartTag("a", Attrs(None, Url_ProfileRelative, Label_Acme, EmptyStr, EmptyStr, EmptyStr)),
          StartTag("a", Attrs(Str_nectar_post_grid_link, None, None, EmptyStr, EmptyStr, EmptyStr)),
          StartTag("div", NoAttrs)}
SETOtherEvents == {EndTag("a"), Data(Text_Ab)}

\* ... on any other document
GenericStartEvents ==
    {StartTag("a", Attrs(EmptyStr, h, EmptyStr, EmptyStr, EmptyStr, EmptyStr)) :
        h \in {Site_External, Url_ProfileRelative, EmptyStr, None}}
    \cup {StartTag("div", NoAttrs)}
GenericEndEvents == {EndTag("a"), EndTag("div")}
GenericDataEvents ==
    {Data(Text_Ab), Data(Text_ab), Data(Text_Spaced), Data(Text_Short), Data(Text_Long),
     Data(<<" ">>)}

NoCall == [url |-> <<"-">>, html |-> "unfetched", built |-> <<>>, returned |-> <<>>]
NoEnv == [exists |-> FALSE, outcome |-> "ok", empty |-> FALSE]

\* scrape_portfolios passes [] to scrape_portfolio
InnerFallback == IF smode = "scrape_portfolios" THEN <<>> ELSE sfallback

\* scrape_portfolio returns list: to the caller of the model, or to the loop of
\* scrape_portfolios, which extends companies and goes to the next url
ScrapeReturn(html, built, list) ==
    /\ scall' = [url |-> Head(surls), html |-> html, built |-> built, returned |-> list]
    /\ IF smode = "scrape_portfolios"
       THEN /\ collected' = collected \o list
            /\ surls' = Tail(surls)
            /\ spc' = "call"
            /\ UNCHANGED sresult
       ELSE /\ sresult' = list
            /\ spc' = "returned"
            /\ UNCHANGED <<collected, surls>>

\* html = fetch_html(url); if not html: return fallback; else a parser is made
\* and fed
FetchHtml ==
    /\ spc = "call" /\ surls # <<>>
    /\ \E env \in FetchEnvs :
        /\ EnvFits(Head(surls), env)
        /\ LET r == fetch_html(Head(surls), env) IN
           /\ senv' = env
           /\ sattempts' = r.attempts
           /\ eip_parser' = EIPInit /\ eip_nesting' = 0 /\ set_parser' = <<>>
           /\ link_parser' = LinkParserInit /\ text_parser' = TextParserInit
           /\ nevents' = 0
           /\ IF r.exc # ""
              THEN /\ sraised' = r.exc /\ spc' = "raised" /\ shtml' = "unfetched"
                   /\ UNCHANGED <<scall, collected, surls, sresult>>
              ELSE /\ shtml' = r.value
                   /\ UNCHANGED sraised
                   /\ IF r.value \in {"None", ""}
                      THEN ScrapeReturn(r.value, <<>>, InnerFallback)
                      ELSE /\ spc' = "feed"
                           /\ UNCHANGED <<scall, collected, surls, sresult>>
    /\ UNCHANGED <<smode, sfallback>>
    /\ UNCHANGED <<fvars, evars, hvars, ivars>>

\* parser.feed(html) calls one more handler; an exception of the handler leaves
\* feed and scrape_portfolio
Feeding(extractor, bound, exc) ==
    /\ spc = "feed" /\ Extractor(Head(surls)) = extractor /\ nevents < bound
    /\ nevents' = nevents + 1
    /\ spc' = IF exc = "" THEN "feed" ELSE "raised"
    /\ sraised' = exc
    /\ UNCHANGED <<smode, surls, sfallback, senv, shtml, sattempts, scall, collected, sresult>>
    /\ UNCHANGED <<fvars, evars, hvars, ivars>>

\* the nesting of divs in the document itself, counted from the div with the item
\* class marker that opened the block: what the parser's counter is meant to track
NestingAfterStart(nesting, tag, attrs) ==
    IF tag # "div" THEN nesting
    ELSE IF nesting > 0 THEN nesting + 1
    ELSE IF Contains(attrs.class, Str_portfolio_item_overlay) THEN 1
    ELSE 0

NestingAfterEnd(nesting, tag) ==
    IF tag = "div" /\ nesting > 0 THEN nesting - 1 ELSE nesting

EIPHandleStarttag ==
    /\ \E e \in EIPStartEvents :
        /\ Feeding("EIP", MaxEventsEIP, EIP_starttag_raises(eip_parser, e.tag, e.attrs))
        /\ eip_parser' = EIP_handle_starttag(eip_parser, e.tag, e.attrs)
        /\ eip_nesting' = NestingAfterStart(eip_nesting, e.tag, e.attrs)
    /\ UNCHANGED <<set_parser, link_parser, text_parser>>

EIPHandleEndtag ==
    /\ Feeding("EIP", MaxEventsEIP, "")
    /\ \E e \in EIPEndEvents :
        /\ eip_parser' = EIP_handle_endtag(eip_parser, e.tag)
        /\ eip_nesting' = NestingAfterEnd(eip_nesting, e.tag)
    /\ UNCHANGED <<set_parser, link_parser, text_parser>>

EIPHandleData ==
    /\ Feeding("EIP", MaxEventsEIP, "")
    /\ \E e \in EIPDataEvents : eip_parser' = EIP_handle_data(eip_parser, e.data)
    /\ UNCHANGED <<eip_nesting, set_parser, link_parser, text_parser>>

SETHandleStarttag ==
    /\ \E e \in SETStartEvents :
        /\ Feeding("SET", MaxEventsSET, SET_starttag_raises(e.tag, e.attrs))
        /\ set_parser' = SET_handle_starttag(set_parser, e.tag, e.attrs)
    /\ UNCHANGED <<eip_parser, eip_nesting, link_parser, text_parser>>

\* SetVenturesParser overrides no other handler: HTMLParser's do nothing
SETHandleOther ==
    /\ Feeding("SET", MaxEventsSET, "")
    /\ UNCHANGED <<eip_parser, eip_nesting, set_parser, link_parser, text_parser>>

\* the generic branch feeds the document to an AnchorLinkParser and, when that
\* gives no entries, again to an AnchorTextParser: both see the same handler calls
GenericHandleStarttag ==
    /\ Feeding("generic", MaxEventsGeneric, "")
    /\ \E e \in GenericStartEvents :
        /\ link_parser' = AL_handle_starttag(link_parser, e.tag, e.attrs)
        /\ text_parser' = AT_handle_starttag(text_parser, e.tag)
    /\ UNCHANGED <<eip_parser, eip_nesting, set_parser>>

GenericHandleEndtag ==
    /\ Feeding("generic", MaxEventsGeneric, "")
    /\ \E e \in GenericEndEvents :
        /\ link_parser' = AL_handle_endtag(link_parser, e.tag)
        /\ text_parser' = AT_handle_endtag(text_parser, e.tag)
    /\ UNCHANGED <<eip_parser, eip_nesting, set_parser>>

GenericHandleData ==
    /\ Feeding("generic", MaxEventsGeneric, "")
    /\ \E e \in GenericDataEvents :
        /\ link_parser' = AL_handle_data(link_parser, e.data)
        /\ text_parser' = AT_handle_data(text_parser, e.data)
    /\ UNCHANGED <<eip_parser, eip_nesting, set_parser>>

EventBound(extractor) ==
    CASE extractor = "EIP" -> MaxEventsEIP
      [] extractor = "SET" -> MaxEventsSET
      [] OTHER -> MaxEventsGeneric

FeedMarkedSection ==
    /\ \E exc \in MarkedSectionOutcomes :
        Feeding(Extractor(Head(surls)), EventBound(Extractor(Head(surls))), exc)
    /\ UNCHANGED <<eip_parser, eip_nesting, set_parser, link_parser, text_parser>>

\* the records scrape_portfolio builds once the document is fed
Built ==
    CASE Extractor(Head(surls)) = "EIP" -> eip_companies(eip_parser.entries, Source_EIP)
      [] Extractor(Head(surls)) = "SET" -> set_companies(set_parser, Source_EIP)
      [] OTHER -> generic_companies(link_parser.links, text_parser.anchors, Source_EIP)

\* return companies or fallback (the generic branch: if entries / if not names)
ScrapePortfolioReturn ==
    /\ spc = "feed"
    /\ ScrapeReturn(shtml, Built, IF Built # <<>> THEN Built ELSE InnerFallback)
    /\ UNCHANGED <<smode, sfallback, senv, shtml, sattempts, eip_parser, eip_nesting, set_parser,
                   link_parser, text_parser, nevents, sraised>>
    /\ UNCHANGED <<fvars, evars, hvars, ivars>>

\* scrape_portfolios after its loop: return companies or fallback
ScrapePortfoliosReturn ==
    /\ spc = "call" /\ smode = "scrape_portfolios" /\ surls = <<>>
    /\ sresult' = IF collected # <<>> THEN collected ELSE sfallback
    /\ spc' = "returned"
    /\ UNCHANGED <<smode, surls, sfallback, senv, shtml, sattempts, eip_parser, eip_nesting, set_parser,
                   link_parser, text_parser, nevents, scall, collected, sraised>>
    /\ UNCHANGED <<fvars, evars, hvars, ivars>>

ScrapeIdle ==
    /\ spc = "idle" /\ smode = "" /\ surls = <<>> /\ sfallback = <<>>
    /\ senv = NoEnv /\ shtml = "unfetched" /\ sattempts = 0
    /\ eip_parser = EIPInit /\ eip_nesting = 0 /\ set_parser = <<>>
    /\ link_parser = LinkParserInit /\ text_parser = TextParserInit
    /\ nevents = 0 /\ scall = NoCall /\ collected = <<>> /\ sresult = <<>> /\ sraised = ""

-----------------------------------------------------------------------------
(* infer_company_name applied to one description and website *)

Desc_VoltStor == <<"V", "o", "l", "t", "S", "t", "o", "r", "'", "s", " ", "b", "a", "t", "t", "e", "r", "y", " ", "s", "y", "s", "t", "e", "m", "s", " ", "e", "x", "t", "e", "n", "d", " ", "g", "r", "i", "d", " ", "s", "t", "o", "r", "a", "g", "e", ".">>
Desc_AeroGrid == <<"A", "e", "r", "o", "G", "r", "i", "d", " ", "p", "r", "o", "v", "i", "d", "e", "s", " ", "s", "m", "a", "r", "t", " ", "g", "r", "i", "d", " ", "o", "p", "t", "i", "m", "i", "z", "a", "t", "i", "o", "n", ".">>
Site_SunPeakWww == <<"h", "t", "t", "p", "s", ":", "/", "/", "w", "w", "w", ".", "s", "u", "n", "p", "e", "a", "k", ".", "e", "x", "a", "m", "p", "l", "e", ".", "c", "o", "m">>

InferDescriptions ==
    {EmptyStr, Desc_VoltStor, Desc_AeroGrid,
     <<"A", "b", "'", "s", " ", "c", " ", "i", "s">>,
     <<"w", "e", " ", "t", "h", "i", "n", "k", " ", "A", "b", " ", "i", "s">>,
     <<"a", "b", "'", "s", " ", "c">>,
     <<"A", " ", "B", " ", "C", " ", "D", " ", "E", "'", "s", " ", "x">>,
     <<"A", " ", "B", " ", "C", " ", "D", "'", "s", " ", "x">>,
     <<"t", "h", "e", " ", "a", "b">>,
     <<"x", " ", "A", "b", "'", "s">>}

InferWebsites ==
    {EmptyStr, Site_SunPeakWww,
     <<"h", "t", "t", "p", "s", ":", "/", "/", "w", "w", "w", ".", "s", "u", "n", "-", "p", "e", "a", "k", "_", "x", ".", "i", "o", "/", "p">>,
     <<"h", "t", "t", "p", "s", ":", "/", "/", "x", ".", "i", "o">>,
     <<"h", "t", "t", "p", ":", "/", "/", "w", "w", "w", ".", "w", "w", "w", ".", "i", "o">>,
     <<"h", "t", "t", "p", "s", ":", "/", "/", "a", "w", "w", "w", ".", "b", ".", "c", "o", "m">>,
     <<"h", "t", "t", "p", "s", ":", "/", "/", ".", "e", "x", "a", "m", "p", "l", "e", ".", "c", "o", "m">>,
     <<"h", "t", "t", "p", "s", ":", "/", "/", "-", ".", "c", "o", "m">>,
     <<"s", "u", "n", "p", "e", "a", "k", ".", "e", "x", "a", "m", "p", "l", "e", ".", "c", "o", "m">>}

NotInferred == [done |-> FALSE, name |-> EmptyStr]

InferCompanyName ==
    /\ ~ infer_out.done
    /\ infer_out' = [done |-> TRUE, name |-> infer_company_name(infer_in[1], infer_in[2])]
    /\ UNCHANGED <<infer_in, fvars, evars, hvars, svars>>

InferIdle == infer_in = <<EmptyStr, EmptyStr>> /\ infer_out = NotInferred

-----------------------------------------------------------------------------
(* Specifications *)

FilterIdle ==
    /\ fpc = "idle" /\ companies = <<>> /\ llm_env = [library |-> FALSE, api_key |-> FALSE]
    /\ submitted = <<>> /\ response = NoResponse /\ matches = <<>> /\ relevant = <<>>
    /\ single = NoSingle /\ requests = 0 /\ fraised = ""
    /\ judge = NoJudge /\ singles = <<>>

InitFilter ==
    /\ fpc = "start"
    /\ companies \in CompanyLists(MaxCompanies)
    /\ llm_env \in LlmEnvs
    /\ submitted = <<>> /\ response = NoResponse /\ matches = <<>> /\ relevant = <<>>
    /\ single = NoSingle /\ requests = 0 /\ fraised = ""
    /\ judge = NoJudge /\ singles = <<>>
    /\ EnrichIdle /\ HashIdle /\ ScrapeIdle /\ InferIdle

NextFilter ==
    \/ FilterRelevant
    \/ \E i \in 1..MaxCompanies : IsRelevant(i)

SpecFilter == InitFilter /\ [][NextFilter]_vars

InitAgree ==
    /\ fpc = "agree"
    /\ companies \in AgreeLists(MaxCompanies)
    /\ llm_env \in LlmEnvs
    /\ judge \in Classifiers
    /\ submitted = <<>> /\ response = NoResponse /\ matches = <<>> /\ relevant = <<>>
    /\ single = NoSingle /\ requests = 0 /\ fraised = "" /\ singles = <<>>
    /\ EnrichIdle /\ HashIdle /\ ScrapeIdle /\ InferIdle

NextAgree == AgreeFilterRelevant \/ AgreeIsRelevant

SpecAgree == InitAgree /\ [][NextAgree]_vars

InitEnrich ==
    /\ epc = "profile"
    /\ ecompany \in EnrichInputs
    /\ ecompany0 = ecompany
    /\ profile_html = NoneHtml /\ fetches = 0 /\ eraised = ""
    /\ FilterIdle /\ HashIdle /\ ScrapeIdle /\ InferIdle

NextEnrich == EnrichFromVcProfile \/ FillMissingFields \/ EnrichRound

SpecEnrich == InitEnrich /\ [][NextEnrich]_vars

InitHash ==
    /\ hash_in \in HashNames \X HashNames
    /\ hash_out = <<"", "">>
    /\ FilterIdle /\ EnrichIdle /\ ScrapeIdle /\ InferIdle

NextHash == HashFirst \/ HashSecond

SpecHash == InitHash /\ [][NextHash]_vars

InitScrape ==
    /\ spc = "call"
    /\ \/ smode = "scrape_portfolio" /\ surls \in {<<u>> : u \in ScrapeUrls}
       \/ smode = "scrape_portfolios" /\ surls \in ScrapeUrlLists
    /\ sfallback \in ScrapeFallbacks
    /\ senv = NoEnv /\ shtml = "unfetched" /\ sattempts = 0
    /\ eip_parser = EIPInit /\ eip_nesting = 0 /\ set_parser = <<>>
    /\ link_parser = LinkParserInit /\ text_parser = TextParserInit
    /\ nevents = 0 /\ scall = NoCall /\ collected = <<>> /\ sresult = <<>> /\ sraised = ""
    /\ FilterIdle /\ EnrichIdle /\ HashIdle /\ InferIdle

NextScrape ==
    \/ FetchHtml
    \/ EIPHandleStarttag \/ EIPHandleEndtag \/ EIPHandleData
    \/ SETHandleStarttag \/ SETHandleOther
    \/ GenericHandleStarttag \/ GenericHandleEndtag \/ GenericHandleData
    \/ FeedMarkedSection
    \/ ScrapePortfolioReturn
    \/ ScrapePortfoliosReturn

SpecScrape == InitScrape /\ [][NextScrape]_vars

InitInfer ==
    /\ infer_in \in InferDescriptions \X InferWebsites
    /\ infer_out = NotInferred
    /\ FilterIdle /\ EnrichIdle /\ HashIdle /\ ScrapeIdle

NextInfer == InferCompanyName

SpecInfer == InitInfer /\ [][NextInfer]_vars

-----------------------------------------------------------------------------
(* Properties of the relevance filter, checked under SpecFilter *)

\* the strictly increasing sequence of the elements of a set of numbers
RECURSIVE AscSeq(_)
AscSeq(S) ==
    IF S = {} THEN <<>>
    ELSE LET m == CHOOSE x \in S : \A y \in S : x <= y
         IN <<m>> \o AscSeq(S \ {m})

EarlyRounds == {"Seed", "Series A", "Series B", "Series C"}

\* C1: for each of the 11 RoundStage values, is_round_eligible answers true
\* exactly for Seed, Series A, Series B, Series C (as is_relevant applies it to a
\* record, and as filter_relevant applies it: nothing outside these is submitted).
C1_RoundGateIff ==
    /\ fpc = "single" =>
          (single.eligible <=> companies[single.index].last_round \in EarlyRounds)
    /\ fpc = "filtered" =>
          \A k \in 1..Len(relevant) : relevant[k].last_round \in EarlyRounds

C1_Witness ==
    /\ fpc = "single"
    /\ companies[single.index].last_round = "Series D"
    /\ ~ single.eligible

\* the records that pass the round gate and have a description, by position
C2_Survivors ==
    {i \in 1..Len(companies) :
        /\ companies[i].last_round \in EarlyRounds
        /\ companies[i].description # EmptyStr}

\* the classifier was reached and answered with a text that parses to a list
C2_AnsweredList ==
    /\ llm_env.library /\ llm_env.api_key
    /\ ~ response.raises
    /\ response.fence # "lang"
    /\ response.doc.kind = "list"

\* C2: filter_relevant submits, as one batch and in input order, the descriptions
\* of exactly the round-eligible records with a description; on an answer of the
\* same length N it returns the submitted records whose result is true, in input
\* order; on an answer of another length it returns the empty list.
C2_BatchJoin ==
    fpc = "filtered" =>
       LET idx == AscSeq(C2_Survivors)
           n == Len(idx)
       IN  /\ submitted = IF n = 0 THEN <<>>
                          ELSE << [k \in 1..n |-> companies[idx[k]].description] >>
           /\ n = 0 => relevant = <<>>
           /\ (n > 0 /\ C2_AnsweredList) =>
                 LET items == response.doc.items
                     kept == AscSeq({idx[k] : k \in {j \in 1..n : j <= Len(items) /\ items[j] = "true"}})
                 IN  IF Len(items) = n
                     THEN relevant = [k \in 1..Len(kept) |-> companies[kept[k]]]
                     ELSE relevant = <<>>

C2_Witness ==
    /\ fpc = "filtered"
    /\ Len(companies) = 2
    /\ C2_Survivors = {1, 2}
    /\ C2_AnsweredList
    /\ response.doc.items = <<"false", "true">>
    /\ relevant = <<companies[2]>>

\* one of the failures of the classifier call the claim lists, for a batch of n
C3_Failure(n) ==
    \/ ~ llm_env.library
    \/ ~ llm_env.api_key
    \/ response.raises
    \/ response.fence = "lang"
    \/ response.doc.kind = "invalid"
    \/ response.doc.kind # "list"
    \/ Len(response.doc.items) # n

\* C3: the relevance gate is fail-closed. No exception reaches the caller; on any
\* listed failure the batch answer is all-false of the submitted length and
\* filter_relevant keeps nothing, and llm_matches_energy answers false; in a
\* well-formed batch answer a non-boolean element is false for its record only.
C3_FailClosed ==
    /\ fraised = ""
    /\ (fpc = "filtered" /\ submitted # <<>>) =>
          LET n == Len(submitted[1]) IN
          IF C3_Failure(n)
          THEN matches = [k \in 1..n |-> FALSE] /\ relevant = <<>>
          ELSE matches = [k \in 1..n |-> response.doc.items[k] = "true"]
    /\ (fpc = "single" /\ submitted # <<>>) =>
          ((\/ ~ llm_env.library \/ ~ llm_env.api_key \/ response.raises
            \/ response.fence = "lang" \/ response.doc.kind # "bool")
              => ~ single.result)

C3_Witness ==
    /\ fpc = "filtered"
    /\ requests = 1
    /\ Len(submitted[1]) = 2
    /\ response.doc.kind = "invalid"
    /\ matches = <<FALSE, FALSE>>
    /\ relevant = <<>>

-----------------------------------------------------------------------------
(* Properties of the enrichment pipeline, checked under SpecEnrich and SpecHash *)

\* C4: over enrich_from_vc_profile, fill_missing_fields, enrich_round in this
\* order the funding round is assigned at most once: every step that changes it
\* changes it from Unknown to a value that is not Unknown, so a known round is
\* never overwritten.
C4_RoundAssignedOnce ==
    [][ecompany'.last_round # ecompany.last_round
          => (ecompany.last_round = "Unknown" /\ ecompany'.last_round # "Unknown")]_vars

C4_Witness ==
    /\ epc = "done"
    /\ Lower(ecompany0.name) = Lower(Name_GridPulse)
    /\ ecompany0.last_round = "Series E"
    /\ ecompany.last_round = "Series E"

HashFallbackRounds == {"Seed", "Series A", "Series B", "Series C", "Series D"}

\* C5: after the three steps the funding round is never Unknown: it is the round
\* the record came with, or the round of the reference data for its name, or one
\* of Seed, Series A .. Series D from the hash fallback.
C5_NeverUnknownAfterPipeline ==
    epc = "done" =>
       /\ ecompany.last_round # "Unknown"
       /\ IF ecompany0.last_round # "Unknown"
          THEN ecompany.last_round = ecompany0.last_round
          ELSE IF Lower(ecompany0.name) = Lower(Name_GridPulse)
          THEN ecompany.last_round = "Series A"
          ELSE ecompany.last_round \in HashFallbackRounds

C5_Witness ==
    /\ epc = "done"
    /\ ecompany0.name = <<"N", "o">>
    /\ ecompany0.last_round = "Unknown"
    /\ ecompany.last_round = "Series D"

\* C6: _hash_round_stage returns one of Seed, Series A .. Series D for every
\* name, Seed for the empty name, the same round for two names that are equal
\* ignoring case, and the entry of the list at sha256(lowercased name) mod 5
\* (b: 0, k: 1, m: 2, ae: 3, no: 4).
C6_HashRoundStage ==
    /\ \A i \in {1, 2} :
          hash_out[i] # "" =>
             /\ hash_out[i] \in HashFallbackRounds
             /\ hash_in[i] = EmptyStr => hash_out[i] = "Seed"
             /\ Lower(hash_in[i]) = <<"b">> => hash_out[i] = "Seed"
             /\ Lower(hash_in[i]) = <<"k">> => hash_out[i] = "Series A"
             /\ Lower(hash_in[i]) = <<"m">> => hash_out[i] = "Series B"
             /\ Lower(hash_in[i]) = <<"a", "e">> => hash_out[i] = "Series C"
             /\ Lower(hash_in[i]) = <<"n", "o">> => hash_out[i] = "Series D"
    /\ (hash_out[1] # "" /\ hash_out[2] # "" /\ Lower(hash_in[1]) = Lower(hash_in[2]))
          => hash_out[1] = hash_out[2]

C6_Witness ==
    /\ hash_in = << <<"N", "o">>, <<"n", "o">> >>
    /\ hash_out = <<"Series D", "Series D">>

\* C10: enrich_from_vc_profile fetches only for a record with an empty
\* description and a non-empty profile URL; when it does not fetch, or the fetch
\* fails in any way (a profile URL that is not absolute included), the record is
\* unchanged and no error reaches the caller.
C10_ProfileFetchBestEffort ==
    /\ eraised = ""
    /\ fetches > 0 => (ecompany0.description = EmptyStr /\ ecompany0.profile_url # EmptyStr)
    /\ (epc = "fill" /\ (fetches = 0 \/ profile_html.none)) => ecompany = ecompany0

-----------------------------------------------------------------------------
(* Scraping properties *)

\* the last scrape_portfolio call fed a document, and the parsers still hold it
CallParsed == spc \in {"call", "returned"} /\ scall.html = "text"

\* the members of seq at the indices idx, in ascending order
PickSeq(seq, idx) ==
    [k \in 1..Cardinality(idx) |->
        seq[CHOOSE i \in idx : Cardinality({j \in idx : j <= i}) = k]]

\* the indices of the records whose name no earlier record has, ignoring case
FirstSeen(records) ==
    {i \in DOMAIN records :
        \A j \in 1..(i - 1) : Lower(records[j].name) # Lower(records[i].name)}

NoTwoNamesEqualIgnoringCase(records) ==
    \A i, j \in DOMAIN records :
        i # j => Lower(records[i].name) # Lower(records[j].name)

Cleaned(text) == NormalizeSpace(text)

\* the anchors a generic extraction pass accepts, as records in document order:
\* the links with an absolute href and a name of 2..60 characters, and when
\* there is none the anchor texts of 2..60 characters
GenericCandidates ==
    LET links == link_parser.links
        anchors == text_parser.anchors
        okLinks == {i \in DOMAIN links :
                       /\ Len(Cleaned(links[i][1])) \in 2..60
                       /\ StartsWith(links[i][2], Str_http) \/ StartsWith(links[i][2], Str_https)}
        okAnchors == {i \in DOMAIN anchors : Len(Cleaned(anchors[i])) \in 2..60}
        linkRecords == [i \in DOMAIN links |->
                           Company(Cleaned(links[i][1]), links[i][2], EmptyStr, UNKNOWN,
                                   Source_EIP, EmptyStr)]
        anchorRecords == [i \in DOMAIN anchors |->
                             Company(Cleaned(anchors[i]), EmptyStr, EmptyStr, UNKNOWN,
                                     Source_EIP, EmptyStr)]
    IN  IF okLinks # {} THEN PickSeq(linkRecords, okLinks)
        ELSE PickSeq(anchorRecords, okAnchors)

\* one record per entry a layout parser collected, in document order
Candidates ==
    CASE Extractor(scall.url) = "EIP" -> eip_companies(eip_parser.entries, Source_EIP)
      [] Extractor(scall.url) = "SET" -> set_companies(set_parser, Source_EIP)
      [] OTHER -> GenericCandidates

\* C7 as stated: whichever extractor scrape_portfolio selects (layout A, layout
\* B, generic), the records it builds from a document contain no two names that
\* are equal ignoring case, and the records kept are the first ones seen, in
\* document order.
C7_DedupEveryExtractor ==
    CallParsed =>
        /\ NoTwoNamesEqualIgnoringCase(scall.built)
        /\ scall.built = PickSeq(Candidates, FirstSeen(Candidates))

\* C7 as the code has it: the generic extractor deduplicates names ignoring
\* case, keeps the first record seen and preserves document order; the layout A
\* and layout B branches build one record per parsed entry, duplicates included.
C7_DedupGenericOnly ==
    CallParsed =>
        IF Extractor(scall.url) = "generic"
        THEN /\ NoTwoNamesEqualIgnoringCase(scall.built)
             /\ scall.built = PickSeq(Candidates, FirstSeen(Candidates))
        ELSE scall.built = Candidates

\* a generic pass met a second anchor whose name differs from an earlier one only
\* in case, and dropped it
C7_Witness ==
    /\ CallParsed /\ Extractor(scall.url) = "generic"
    /\ \E i, j \in DOMAIN Candidates :
        /\ i < j
        /\ Candidates[i].name # Candidates[j].name
        /\ Lower(Candidates[i].name) = Lower(Candidates[j].name)
    /\ Len(scall.built) < Len(Candidates)

\* C8: whatever the source reference and whatever the read or the request does,
\* fetch_html returns the decoded text or the no-document value, raises nothing
\* to its caller and makes at most one request attempt.
C8_FetchHtmlNeverRaises ==
    /\ sraised = ""
    /\ sattempts <= 1
    /\ shtml \in {"unfetched", "None", "", "text"}

\* C9: scrape_portfolio returns the fallback it was given whenever no document
\* was fetched or the extractor yields no entries, and otherwise exactly the
\* records built from the document; scrape_portfolios returns its fallback
\* exactly when the records collected over all its urls are empty.
C9_FallbackContract ==
    /\ spc # "raised"
    /\ scall # NoCall =>
        /\ (scall.html \in {"None", ""} \/ scall.built = <<>>) => scall.returned = InnerFallback
        /\ (scall.html = "text" /\ scall.built # <<>>) => scall.returned = scall.built
        /\ (InnerFallback # <<>>) => scall.returned # <<>>
    /\ (spc = "returned" /\ smode = "scrape_portfolios") =>
        /\ collected = <<>> => sresult = sfallback
        /\ collected # <<>> => sresult = collected

-----------------------------------------------------------------------------
(* infer_company_name properties *)

Str_scheme_sep == <<":", "/", "/">>

\* the website rule as the specification words it: the scheme and a leading
\* "www." stripped, the first DNS label taken, "-" and "_" made spaces, title case
WebsiteRuleName(website) ==
    LET seps == {i \in 1..Len(website) : StartsWith(Slice(website, i, Len(website)), Str_scheme_sep)}
        noScheme == IF seps = {} THEN website
                    ELSE Slice(website, MinOf(seps) + 3, Len(website))
        noWww == IF StartsWith(noScheme, Str_www) THEN Slice(noScheme, 5, Len(noScheme))
                 ELSE noScheme
        label == Slice(noWww, 1, FindAny(noWww, 1, {".", "/"}) - 1)
    IN  Title([i \in 1..Len(label) |-> IF label[i] \in {"-", "_"} THEN " " ELSE label[i]])

\* C11: infer_company_name chooses by strict precedence the possessive phrase,
\* else the phrase before a verb, else the name made from the website's first
\* DNS label, else "Unknown"; the four examples of the specification give
\* VoltStor, AeroGrid, Sunpeak and Unknown; the name returned is never empty.
C11_InferPrecedence ==
    infer_out.done =>
        LET description == infer_in[1]
            website == infer_in[2]
            name == infer_out.name
        IN  /\ name # EmptyStr
            /\ name = IF Truthy(description) /\ match_possessive(description).found
                      THEN match_possessive(description).text
                      ELSE IF Truthy(description) /\ search_verb(description).found
                      THEN search_verb(description).text
                      ELSE IF Truthy(website) THEN WebsiteRuleName(website)
                      ELSE Str_Unknown
            /\ description = Desc_VoltStor => name = Name_VoltStor
            /\ description = Desc_AeroGrid => name = Name_AeroGrid
            /\ (description = EmptyStr /\ website = Site_SunPeakWww)
                  => name = <<"S", "u", "n", "p", "e", "a", "k">>
            /\ (description = EmptyStr /\ website = EmptyStr) => name = Str_Unknown

-----------------------------------------------------------------------------
(* EIPPortfolioParser properties *)

\* C12: while a layout A document is fed, an item block is closed, and its
\* entry emitted, only by the div end tag that brings the div nesting counted
\* from the block's opening tag back to zero, whatever divs are nested in the
\* block; and no entry has both an empty description and an empty website.
C12_BlockClosesAtDepthZero ==
    [][(spc = "feed" /\ spc' = "feed") =>
          /\ (\/ eip_parser.in_overlay /\ ~ eip_parser'.in_overlay
              \/ Len(eip_parser'.entries) > Len(eip_parser.entries))
                => (eip_nesting = 1 /\ eip_nesting' = 0)
          /\ \A i \in DOMAIN eip_parser'.entries :
                Truthy(eip_parser'.entries[i][1]) \/ Truthy(eip_parser'.entries[i][2])]_vars

-----------------------------------------------------------------------------
(* Parsers on malformed documents *)

\* C13: whatever the document holds (end tags with no start, blocks never
\* closed, nested anchors, attributes without a value, malformed declarations),
\* no parser of the scraper raises: once a document is fetched the scan goes on
\* to its end, the parser's block counter never goes below zero, and the worst
\* case is a call that builds zero entries.
C13_ParsersNeverAbort ==
    /\ shtml = "text" => (sraised = "" /\ spc # "raised")
    /\ eip_parser.overlay_div_depth >= 0
    /\ eip_parser.in_overlay => eip_parser.overlay_div_depth >= 1
    /\ CallParsed => (scall.built = <<>> <=> Candidates = <<>>)

-----------------------------------------------------------------------------
(* The generic extractor *)

AbsoluteHref(href) == StartsWith(href, Str_http) \/ StartsWith(href, Str_https)

\* the (text, href) pairs the first pass accepts, before deduplication
FirstPassPairs ==
    LET links == link_parser.links IN
    PickSeq(links, {i \in DOMAIN links :
                       Len(Cleaned(links[i][1])) \in 2..60 /\ AbsoluteHref(links[i][2])})

\* the anchor texts the second pass accepts, before deduplication
SecondPassTexts ==
    LET anchors == text_parser.anchors IN
    PickSeq(anchors, {i \in DOMAIN anchors : Len(Cleaned(anchors[i])) \in 2..60})

LoweredForms(texts) == {Lower(Cleaned(texts[i])) : i \in DOMAIN texts}

\* C14: the generic extractor is two-pass. When the first pass keeps a pair, the
\* records are those pairs, each with its absolute href as website, and no
\* record comes from the second pass; only when it keeps none are the records
\* the anchor texts alone, without website. In either pass there are as many
\* records as distinct lowercased names, each the first text seen with that name.
C14_GenericTwoPass ==
    (CallParsed /\ Extractor(scall.url) = "generic") =>
        LET built == scall.built
            firstTexts == [i \in DOMAIN FirstPassPairs |-> FirstPassPairs[i][1]]
        IN  IF FirstPassPairs # <<>>
            THEN /\ Len(built) = Cardinality(LoweredForms(firstTexts))
                 /\ \A k \in DOMAIN built :
                      /\ AbsoluteHref(built[k].website)
                      /\ \E i \in DOMAIN FirstPassPairs :
                           /\ built[k].name = Cleaned(FirstPassPairs[i][1])
                           /\ built[k].website = FirstPassPairs[i][2]
                           /\ \A j \in 1..(i - 1) :
                                Lower(Cleaned(FirstPassPairs[j][1])) # Lower(built[k].name)
                 /\ \A k, l \in DOMAIN built : k < l =>
                      \E i, j \in DOMAIN FirstPassPairs :
                           /\ i < j
                           /\ built[k].name = Cleaned(FirstPassPairs[i][1])
                           /\ built[l].name = Cleaned(FirstPassPairs[j][1])
            ELSE /\ Len(built) = Cardinality(LoweredForms(SecondPassTexts))
                 /\ \A k \in DOMAIN built :
                      /\ built[k].website = EmptyStr
                      /\ \E i \in DOMAIN SecondPassTexts :
                           /\ built[k].name = Cleaned(SecondPassTexts[i])
                           /\ \A j \in 1..(i - 1) :
                                Lower(Cleaned(SecondPassTexts[j])) # Lower(built[k].name)
                 /\ \A k, l \in DOMAIN built : k < l =>
                      \E i, j \in DOMAIN SecondPassTexts :
                           /\ i < j
                           /\ built[k].name = Cleaned(SecondPassTexts[i])
                           /\ built[l].name = Cleaned(SecondPassTexts[j])

\* the first pass kept nothing (the only anchor has a relative href), and the
\* second pass returned the anchor text once for two spellings of it
C14_Witness ==
    /\ CallParsed /\ Extractor(scall.url) = "generic"
    /\ link_parser.links # <<>> /\ FirstPassPairs = <<>>
    /\ Len(SecondPassTexts) = 2 /\ Len(scall.built) = 1
    /\ scall.built[1].website = EmptyStr

-----------------------------------------------------------------------------
(* enrich_from_vc_profile on a fetched page *)

\* enrich_from_vc_profile has just fetched a page
ProfileFetched == fetches = 1 /\ ~ NotHtml(profile_html) /\ epc \in {"fill", "raised"}

\* the domain a record's source lists its portfolio under
SourceDomain(source) ==
    IF source = Source_SET THEN Str_setventures_com ELSE Str_energyimpactpartners_com

\* the stripped content of the first meta tag of the page whose name (or, for
\* og:description, property) is key and whose content is not blank; "" if none
FirstMetaContent(page, field, key) ==
    LET hits == {i \in DOMAIN page :
                    /\ page[i].type = "start" /\ page[i].tag = "meta"
                    /\ Lower(page[i].attrs[field]) = key
                    /\ Truthy(Strip(page[i].attrs.content))}
    IN  IF hits = {} THEN EmptyStr ELSE Strip(page[MinOf(hits)].attrs.content)

\* the first text that is not blank inside a paragraph element; "" if none
FirstParagraphText(page) ==
    LET inParagraph(i) ==
            \E j \in 1..(i - 1) :
                /\ page[j].type = "start" /\ page[j].tag = "p"
                /\ \A k \in (j + 1)..(i - 1) : ~ (page[k].type = "end" /\ page[k].tag = "p")
        hits == {i \in DOMAIN page :
                    page[i].type = "data" /\ Truthy(Strip(page[i].data)) /\ inParagraph(i)}
    IN  IF hits = {} THEN EmptyStr ELSE Strip(page[MinOf(hits)].data)

\* the first absolute http(s) anchor target that does not point back to domain
FirstExternalTarget(page, domain) ==
    LET hits == {i \in DOMAIN page :
                    /\ page[i].type = "start" /\ page[i].tag = "a"
                    /\ AbsoluteHref(page[i].attrs.href)
                    /\ ~ Contains(page[i].attrs.href, domain)}
    IN  IF hits = {} THEN EmptyStr ELSE page[MinOf(hits)].attrs.href

FirstNonEmpty(a, b, c) == IF Truthy(a) THEN a ELSE IF Truthy(b) THEN b ELSE c

\* C15: on a successful profile fetch enrich_from_vc_profile returns the record
\* with its description set to the first non-empty of the meta description,
\* the meta og:description and the first paragraph's text; a website that was
\* empty is set to the first absolute http(s) anchor target that does not point
\* back to the record's own source domain, a website that was not empty is left
\* as it was; name, source and funding round are unchanged.
C15_ProfileFrame ==
    ProfileFetched =>
        LET page == profile_html.events
            found == FirstNonEmpty(FirstMetaContent(page, "name", Str_description),
                                   FirstMetaContent(page, "property", Str_og_description),
                                   FirstParagraphText(page))
            target == FirstExternalTarget(page, SourceDomain(ecompany0.source))
        IN  /\ epc = "fill"
            /\ ecompany.description = IF Truthy(found) THEN found ELSE ecompany0.description
            /\ ecompany.website = IF Truthy(ecompany0.website) THEN ecompany0.website
                                  ELSE IF Truthy(target) THEN target
                                  ELSE ecompany0.website
            /\ ecompany.name = ecompany0.name
            /\ ecompany.source = ecompany0.source
            /\ ecompany.last_round = ecompany0.last_round


-----------------------------------------------------------------------------
(* filter_relevant against is_relevant, record by record *)

\* both calls have been made for every record of the list
AgreeDone == fpc = "agree_singles" /\ Len(singles) = Len(companies)

\* the records that pass the round check and have a description
Survives(company) ==
    company.last_round \in EARLY_STAGE_ALLOWED /\ company.description # EmptyStr

Survivors == {i \in DOMAIN companies : Survives(companies[i])}

\* C16: with a classifier that answers a batch as it answers each description
\* alone, filter_relevant(records) is the records for which is_relevant is
\* true, in input order; a record with an ineligible round or an empty
\* description is rejected by both, and its description is never put to the
\* classifier; when no record passes the two checks nothing at all is put to it.
C16_BatchAgreesWithSingle ==
    /\ fpc = "agree_singles" =>
          /\ \A i \in 1..Len(singles) :
                singles[i] <=> (\E k \in DOMAIN relevant : relevant[k] = companies[i])
          /\ \A k \in DOMAIN relevant : Survives(relevant[k])
          /\ \A i \in 1..Len(singles) : ~ Survives(companies[i]) => ~ singles[i]
          /\ \A b \in DOMAIN submitted : \A k \in DOMAIN submitted[b] :
                \E i \in Survivors : companies[i].description = submitted[b][k]
          /\ Survivors = {} => submitted = <<>> /\ requests = 0 /\ relevant = <<>>
          /\ Len(submitted) = (IF Survivors = {} THEN 0 ELSE 1)
                                + Cardinality({i \in Survivors : i <= Len(singles)})
    /\ AgreeDone =>
          relevant = PickSeq(companies, {i \in DOMAIN companies : singles[i]})

\* both calls made over a list with a rejected record and a record the
\* classifier was asked about, in the batch and alone, and answered true for
C16_Witness ==
    /\ AgreeDone
    /\ requests > 1
    /\ \E i \in DOMAIN companies : ~ Survives(companies[i])
    /\ \E i \in DOMAIN companies : singles[i]
    /\ relevant # <<>>

=============================================================================
